---------------------------- MODULE Spec2Model ----------------------------
(***************************************************************************)
(* Model of the OHE wire-measurement program.                              *)
(*                                                                         *)
(* Persistence subsystem: LogWorker (bounded queue + background consumer   *)
(* thread), SessionLogger (SQLite store), CsvWriter (rolling CSV mirror)   *)
(* and the frame loop of the two runners (ohe/cli.py process_cmd,          *)
(* ohe/ui/pipeline_worker.py).  Two threads of control: the runner         *)
(* ("runner", the frame-processing thread that also calls start()/stop())  *)
(* and the LogWorker consumer thread ("worker").                           *)
(*                                                                         *)
(* DataBus (ohe/core/bus.py): registry, lock and the publish calls of two  *)
(* publishing threads.  RulesEngine (ohe/rules/engine.py): evaluate as an  *)
(* operator applied to bounded inputs.  VideoFileProvider (frame ids),     *)
(* PreProcessor (ROI crop), WireDetector (clustering, election) and        *)
(* MeasurementEngine (compute) likewise, each from its own source file.    *)
(*                                                                         *)
(* Specifications: Spec (free caller of the LogWorker API), ProgramSpec    *)
(* (the runners' call order), SessionSpec (SessionLogger used on its own   *)
(* thread), CsvSpec (CsvWriter used directly), BusSpec, RulesSpec,         *)
(* DiameterSpec (every diameter configuration), MeasureSpec, VideoSpec     *)
(* (a runner fed by a VideoFileProvider), DetectSpec, PreSpec, WriteSpec   *)
(* (the consumer's store calls recorded), LifecycleSpec (consumer threads  *)
(* counted).  The variable calc holds the state of the component a         *)
(* specification is about; the persistence specifications leave it alone.  *)
(***************************************************************************)
EXTENDS Integers, Sequences, FiniteSets, TLC

\* ---------------------------------------------------------------- bounds
MaxCap    == 2      \* largest queue capacity (maxsize) explored
MaxFrames == 2      \* frames the runner takes from the frame source
MaxAnoms  == 1      \* most anomalies the rules engine returns for a frame
CsvMaxRows == 2     \* largest CsvWriter max_rows explored
MaxCsvWrites == 5   \* write() calls of a direct CsvWriter caller
MaxAfterClose == 2  \* flush()/close() calls made on a closed CsvWriter
MaxBusCalls == 4    \* subscribe/unsubscribe/publish calls on the DataBus
MaxDepth == 2       \* publish() calls one thread is inside at once
MaxMm == 3          \* largest measured magnitude (mm) given to the rules
MaxThr == 2         \* largest threshold (mm) of the rules
MaxConf == 2        \* confidences are 0..MaxConf (steps of 1/MaxConf)
MaxPx == 2          \* largest pixel quantity of a WireCandidate
MaxSkip == 2        \* largest frame_skip of a VideoFileProvider
VideoLen == 5       \* frames in the video file
MaxLines == 3       \* most segments given to WireDetector._cluster_lines
MaxImg == 2         \* largest image width and height (px) given to PreProcessor
MaxStarts == 3      \* LogWorker.start() calls of the controlling thread

\* ------------------------------------------------------ program constants
CLUSTER_Y_TOLERANCE_PX == 8

VARIABLES
    cfg,        \* construction parameters: [maxsize, runner, csv]
    q,          \* LogWorker._q  : FIFO of items and stop sentinels
    thread,     \* LogWorker._thread : "none" | "alive" | "dead"
    dropped,    \* LogWorker._dropped
    cpc,        \* consumer thread: "get" | "write" | "drain" | "dwrite" | "exit"
                \*   ("crashed": ended by an exception that left _write)
    citem,      \* item the consumer has taken and is about to _write
    ppc,        \* position of the runner (see Runner positions below)
    sess,       \* SessionLogger state and its SQLite store
    csv,        \* CsvWriter state and its files
    frames,     \* frames taken from the frame source so far
    hist,       \* observation record (calls made, publishes, ...)
    bus,        \* DataBus: registry, lock, publish calls in progress
    calc        \* stateless components: configuration, last input and result

vars == <<cfg, q, thread, dropped, cpc, citem, ppc, sess, csv, frames, hist,
          bus, calc>>

\* the state of the persistence subsystem (everything but the DataBus)
persist == <<cfg, q, thread, dropped, cpc, citem, ppc, sess, csv, frames, hist>>

\* ------------------------------------------------------------- constants
STOP   == [id |-> 0, an |-> 0, det |-> FALSE]      \* the _STOP sentinel
Item(i, det, an) == [id |-> i, an |-> an, det |-> det]

\* (det, an) pairs the pipeline + rules engine can produce for one frame:
\* a detection miss has no stagger/diameter, hence no anomaly.
FrameKinds == {<<d, a>> \in BOOLEAN \X (0..MaxAnoms) : (~d) => a = 0}

\* ---------------------------------------------------------- queue.Queue
\* put_nowait: raises queue.Full when the queue holds maxsize entries,
\* appends otherwise; it never waits.
PutNowait(queue, maxsize, x) ==
    IF Len(queue) >= maxsize
    THEN [q |-> queue, full |-> TRUE]
    ELSE [q |-> Append(queue, x), full |-> FALSE]

\* ---------------------------------------------------------- RulesEngine
\* Millimetre values are integers here; the code compares floats with
\* >= and <= only.  An optional field is [present, v].
Some(v) == [present |-> TRUE, v |-> v]
None == [present |-> FALSE, v |-> 0]

Abs(x) == IF x >= 0 THEN x ELSE -x

Anomaly(type, value, threshold, severity) ==
    [anomaly_type |-> type, value |-> value, threshold |-> threshold,
     severity |-> severity]

\* (variant: the warning test is a second `if`, not an `elif`)
CheckStaggerBothTiers(val, t) ==
    LET type == IF val >= 0 THEN "STAGGER_RIGHT" ELSE "STAGGER_LEFT"
    IN  (IF Abs(val) >= t.critical_mm
         THEN <<Anomaly(type, val, IF val >= 0 THEN t.critical_mm ELSE -t.critical_mm,
                        "CRITICAL")>>
         ELSE <<>>)
        \o
        (IF Abs(val) >= t.warning_mm
         THEN <<Anomaly(type, val, IF val >= 0 THEN t.warning_mm ELSE -t.warning_mm,
                        "WARNING")>>
         ELSE <<>>)

\* RulesEngine._check_stagger
CheckStagger(val, t) ==
    LET type == IF val >= 0 THEN "STAGGER_RIGHT" ELSE "STAGGER_LEFT"
    IN  IF Abs(val) >= t.critical_mm
        THEN <<Anomaly(type, val, IF val >= 0 THEN t.critical_mm ELSE -t.critical_mm,
                       "CRITICAL")>>
        ELSE IF Abs(val) >= t.warning_mm
        THEN <<Anomaly(type, val, IF val >= 0 THEN t.warning_mm ELSE -t.warning_mm,
                       "WARNING")>>
        ELSE <<>>

\* (variant: the maximum is tested only when the minimum gave nothing)
CheckDiameterOneSide(val, t) ==
    IF val <= t.min_critical_mm
    THEN <<Anomaly("DIAMETER_LOW", val, t.min_critical_mm, "CRITICAL")>>
    ELSE IF val <= t.min_warning_mm
    THEN <<Anomaly("DIAMETER_LOW", val, t.min_warning_mm, "WARNING")>>
    ELSE IF val >= t.max_critical_mm
    THEN <<Anomaly("DIAMETER_HIGH", val, t.max_critical_mm, "CRITICAL")>>
    ELSE IF val >= t.max_warning_mm
    THEN <<Anomaly("DIAMETER_HIGH", val, t.max_warning_mm, "WARNING")>>
    ELSE <<>>

\* RulesEngine._check_diameter: the minimum, then the maximum
CheckDiameter(val, t) ==
    (IF val <= t.min_critical_mm
     THEN <<Anomaly("DIAMETER_LOW", val, t.min_critical_mm, "CRITICAL")>>
     ELSE IF val <= t.min_warning_mm
     THEN <<Anomaly("DIAMETER_LOW", val, t.min_warning_mm, "WARNING")>>
     ELSE <<>>)
    \o
    (IF val >= t.max_critical_mm
     THEN <<Anomaly("DIAMETER_HIGH", val, t.max_critical_mm, "CRITICAL")>>
     ELSE IF val >= t.max_warning_mm
     THEN <<Anomaly("DIAMETER_HIGH", val, t.max_warning_mm, "WARNING")>>
     ELSE <<>>)

\* RulesEngine.evaluate
Evaluate(m, t) ==
    (IF m.stagger_mm.present THEN CheckStagger(m.stagger_mm.v, t.stagger) ELSE <<>>)
    \o
    (IF m.diameter_mm.present THEN CheckDiameter(m.diameter_mm.v, t.diameter) ELSE <<>>)

\* Thresholds: any pair of stagger limits (the configuration does not
\* order or bound them); for the diameter the default order
\* min_critical < min_warning < max_warning < max_critical and a
\* configuration whose low and high bands meet.
StaggerThresholds == [warning_mm : -1..MaxThr, critical_mm : -1..MaxThr]

DiameterThresholds ==
    {[min_critical_mm |-> 0, min_warning_mm |-> 1,
      max_warning_mm |-> 2, max_critical_mm |-> 3],
     [min_critical_mm |-> 1, min_warning_mm |-> 2,
      max_warning_mm |-> 2, max_critical_mm |-> 3]}

ThresholdSets == [stagger : StaggerThresholds, diameter : DiameterThresholds]

Measurements ==
    [stagger_mm : {None} \cup {Some(v) : v \in -MaxMm..MaxMm},
     diameter_mm : {None} \cup {Some(v) : v \in 0..MaxMm}]

\* RulesEngine.__init__ with the default thresholds' shape; nothing
\* evaluated yet
CalcInit ==
    [thresholds |-> [stagger |-> [warning_mm |-> 1, critical_mm |-> 2],
                     diameter |-> [min_critical_mm |-> 0, min_warning_mm |-> 1,
                                   max_warning_mm |-> 2, max_critical_mm |-> 3]],
     evaluated |-> FALSE,
     m |-> [stagger_mm |-> None, diameter_mm |-> None],
     anomalies |-> <<>>]

\* -------------------------------------------------------------- DataBus
Topics   == {"measurement", "anomaly"}
Handlers == {"h1", "h2"}
Publishers == {"p1", "p2"}        \* threads that use the bus

\* DataBus.__init__: empty registry, free lock; calls[t] is the stack of
\* publish() calls thread t is inside (innermost first); removed[topic] =
\* handlers unsubscribed from the topic and not subscribed again since;
\* ncalls = subscribe/unsubscribe/publish calls made so far
BusInit ==
    [reg |-> [tp \in Topics |-> <<>>], lock |-> "free",
     calls |-> [t \in Publishers |-> <<>>],
     removed |-> [tp \in Topics |-> {}],
     ncalls |-> 0]

\* list.remove(h): removes the first occurrence; ValueError (caught by
\* unsubscribe) when there is none
RECURSIVE RemoveFirst(_, _)
RemoveFirst(list, h) ==
    IF list = <<>> THEN <<>>
    ELSE IF Head(list) = h THEN Tail(list)
    ELSE <<Head(list)>> \o RemoveFirst(Tail(list), h)

Range(list) == {list[i] : i \in 1..Len(list)}

\* list(self._handlers.get(topic, [])): a copy of the topic's list
Snapshot(reg, topic) == reg[topic]

\* (variant: the loop walks the registry's own list, not a copy)
HandlerAtLive(call, reg) ==
    IF call.i <= Len(reg[call.topic]) THEN reg[call.topic][call.i]
    ELSE call.snap[call.i]

\* the handler the for-loop of publish invokes next
HandlerAt(call, reg) == call.snap[call.i]

\* (variant: no try/except around the handler call)
AfterHandlerUncaught(call, raises) ==
    IF raises
    THEN [call EXCEPT !.pc = "deliver", !.i = Len(call.snap) + 1,
                      !.propagated = TRUE]
    ELSE [call EXCEPT !.pc = "deliver", !.i = @ + 1]

\* the handler returned or raised: an Exception is caught and logged, the
\* loop goes on with the next handler
AfterHandler(call, raises) ==
    [call EXCEPT !.pc = "deliver", !.i = @ + 1,
                 !.caught = @ \/ raises]

\* (variant: the lock is kept while the handlers run)
LockAfterSnapshotHeld(t) == t

\* leaving the `with self._lock` block of publish releases the lock
LockAfterSnapshot(t) == "free"

\* ------------------------------------------------------- SessionLogger
SessInit ==
    [conn |-> "none", owner |-> "nobody", info |-> FALSE,
     total_frames |-> 0, anomaly_count |-> 0,
     mrows |-> <<>>, arows |-> 0, mpend |-> <<>>, apend |-> 0,
     srow |-> "none", srow_frames |-> 0, srow_anoms |-> 0]

\* sqlite3.connect() is called with the default check_same_thread=True:
\* every method of the connection raises ProgrammingError when called from
\* a thread other than the one that created it.
ConnUsable(s, caller) == s.owner = caller

SessionStartOp(s, caller) ==
    [s EXCEPT !.conn = "open", !.owner = caller, !.info = TRUE,
              !.total_frames = 0, !.anomaly_count = 0,
              !.mpend = <<>>, !.apend = 0,
              !.srow = "open", !.srow_frames = 0, !.srow_anoms = 0]

\* The connection runs in sqlite3's default transaction mode: execute() of
\* an INSERT/UPDATE opens a transaction and adds the row to it (mpend,
\* apend); commit() makes every row of the open transaction durable (mrows,
\* arows).  A commit() that raises (e.g. "database is locked") leaves the
\* transaction open with its rows.
Commit(s) ==
    [s EXCEPT !.mrows = @ \o s.mpend, !.arows = @ + s.apend,
              !.mpend = <<>>, !.apend = 0]

\* (variant: the usage check is missing, a logger that was never started
\* is finalized like a started one)
SessionStopOpUnchecked(s, caller) ==
    IF s.conn # "none" /\ ~ConnUsable(s, caller)
    THEN [s |-> s, raised |-> TRUE, touched |-> TRUE]
    ELSE [s |-> [Commit(s) EXCEPT !.conn = "none", !.srow = "ended",
                          !.srow_frames = s.total_frames,
                          !.srow_anoms = s.anomaly_count],
          raised |-> FALSE, touched |-> TRUE]

\* SessionLogger.stop(): raises RuntimeError when not started, otherwise
\* UPDATE + commit + close, _conn = None.
SessionStopOp(s, caller) ==
    IF s.conn = "none" \/ ~s.info
    THEN [s |-> s, raised |-> TRUE, touched |-> FALSE]
    ELSE IF ~ConnUsable(s, caller)
    THEN [s |-> s, raised |-> TRUE, touched |-> TRUE]
    ELSE [s |-> [Commit(s) EXCEPT !.conn = "none", !.srow = "ended",
                          !.srow_frames = s.total_frames,
                          !.srow_anoms = s.anomaly_count],
          raised |-> FALSE, touched |-> TRUE]

\* how a store call can fail: not at all, in execute() (nothing is added
\* to the transaction), or in commit() (the row stays in the transaction)
FailKinds == {"none", "insert", "commit"}

\* (variant: no `if self._conn is None: return`; the call fails on None)
LogMeasurementUnguarded(s, caller, m, fail) ==
    IF s.conn = "none"
    THEN [s |-> s, raised |-> TRUE, touched |-> FALSE]
    ELSE IF ~ConnUsable(s, caller) \/ fail = "insert"
    THEN [s |-> s, raised |-> TRUE, touched |-> TRUE]
    ELSE IF fail = "commit"
    THEN [s |-> [s EXCEPT !.mpend = Append(@, m.id)],
          raised |-> TRUE, touched |-> TRUE]
    ELSE [s |-> [Commit([s EXCEPT !.mpend = Append(@, m.id)])
                    EXCEPT !.total_frames = IF s.info THEN @ + 1 ELSE @],
          raised |-> FALSE, touched |-> TRUE]

\* SessionLogger.log_measurement(m) called by thread `caller`
LogMeasurement(s, caller, m, fail) ==
    IF s.conn = "none"
    THEN [s |-> s, raised |-> FALSE, touched |-> FALSE]
    ELSE IF ~ConnUsable(s, caller) \/ fail = "insert"
    THEN [s |-> s, raised |-> TRUE, touched |-> TRUE]
    ELSE IF fail = "commit"
    THEN [s |-> [s EXCEPT !.mpend = Append(@, m.id)],
          raised |-> TRUE, touched |-> TRUE]
    ELSE [s |-> [Commit([s EXCEPT !.mpend = Append(@, m.id)])
                    EXCEPT !.total_frames = IF s.info THEN @ + 1 ELSE @],
          raised |-> FALSE, touched |-> TRUE]

\* SessionLogger.log_anomaly(a)
LogAnomaly(s, caller, fail) ==
    IF s.conn = "none"
    THEN [s |-> s, raised |-> FALSE, touched |-> FALSE]
    ELSE IF ~ConnUsable(s, caller) \/ fail = "insert"
    THEN [s |-> s, raised |-> TRUE, touched |-> TRUE]
    ELSE IF fail = "commit"
    THEN [s |-> [s EXCEPT !.apend = @ + 1],
          raised |-> TRUE, touched |-> TRUE]
    ELSE [s |-> [Commit([s EXCEPT !.apend = @ + 1])
                    EXCEPT !.anomaly_count = IF s.info THEN @ + 1 ELSE @],
          raised |-> FALSE, touched |-> TRUE]

\* ------------------------------------------------------------ CsvWriter
\* A file is [name, rows]: name is the suffix _open_new_file puts after the
\* session id (empty for part 0), rows the lines written, the header line
\* being HEADER and a data line the frame id of its measurement (>= 1).
\* open = _file/_writer are set; synced = lines of the current file that
\* have been flushed to disk.
HEADER == 0

RECURSIVE Digits(_)
Digits(n) == IF n < 10 THEN <<n>> ELSE Digits(n \div 10) \o <<n % 10>>

RECURSIVE PadLeft(_, _)
PadLeft(d, width) == IF Len(d) >= width THEN d ELSE PadLeft(<<0>> \o d, width)

\* f"_part{index:03d}" for index > 0, "" for the first file
PartSuffix(index) == IF index > 0 THEN PadLeft(Digits(index), 3) ELSE <<>>

\* _open_new_file: open(path, "w") creates the file (or truncates a file of
\* that name) and writeheader() puts the header line in it
OpenNewFile(c) ==
    LET f == [name |-> PartSuffix(c.file_index), rows |-> <<HEADER>>]
        others == SelectSeq(c.files, LAMBDA g : g.name # f.name)
    IN  [c EXCEPT !.files = Append(others, f), !.open = TRUE, !.synced = 0]

CsvNew(maxRows) ==
    OpenNewFile([max_rows |-> maxRows, row_count |-> 0, file_index |-> 0,
                 open |-> FALSE, synced |-> 0, files |-> <<>>])

CsvInit == CsvNew(CsvMaxRows)

\* CsvWriter.close: closes (and so flushes) the current file if there is
\* one, otherwise nothing
CsvCloseOp(c) ==
    IF c.open
    THEN [c EXCEPT !.open = FALSE, !.synced = Len(c.files[Len(c.files)].rows)]
    ELSE c

\* (variant: flush() without the check for a closed file; flushing a
\* closed file object raises ValueError)
CsvFlushOpUnguarded(c) ==
    IF c.open
    THEN [c |-> [c EXCEPT !.synced = Len(c.files[Len(c.files)].rows)],
          raised |-> FALSE]
    ELSE [c |-> c, raised |-> TRUE]

\* CsvWriter.flush
CsvFlushOp(c) ==
    IF c.open
    THEN [c |-> [c EXCEPT !.synced = Len(c.files[Len(c.files)].rows)],
          raised |-> FALSE]
    ELSE [c |-> c, raised |-> FALSE]

\* (variant: no `if self._writer is None: return`; writerow on the closed
\* writer raises)
CsvWriteOpClosedRaises(c, m, fail) ==
    IF ~c.open THEN [c |-> c, raised |-> TRUE]
    ELSE IF fail THEN [c |-> c, raised |-> TRUE]
    ELSE LET w == [c EXCEPT !.files[Len(c.files)].rows = Append(@, m.id),
                            !.row_count = @ + 1]
         IN  IF w.row_count >= c.max_rows
             THEN [c |-> OpenNewFile([CsvCloseOp(w) EXCEPT
                                         !.file_index = @ + 1, !.row_count = 0]),
                   raised |-> FALSE]
             ELSE [c |-> w, raised |-> FALSE]

\* (variant: the rollover test is > instead of >=)
CsvWriteOpLateRollover(c, m, fail) ==
    IF ~c.open THEN [c |-> c, raised |-> FALSE]
    ELSE IF fail THEN [c |-> c, raised |-> TRUE]
    ELSE LET w == [c EXCEPT !.files[Len(c.files)].rows = Append(@, m.id),
                            !.row_count = @ + 1]
         IN  IF w.row_count > c.max_rows
             THEN [c |-> OpenNewFile([CsvCloseOp(w) EXCEPT
                                         !.file_index = @ + 1, !.row_count = 0]),
                   raised |-> FALSE]
             ELSE [c |-> w, raised |-> FALSE]

\* CsvWriter.write: no-op when closed; otherwise one row, then rollover
\* (close, index + 1, count 0, open next part) once row_count >= max_rows.
CsvWriteOp(c, m, fail) ==
    IF ~c.open THEN [c |-> c, raised |-> FALSE]
    ELSE IF fail THEN [c |-> c, raised |-> TRUE]
    ELSE LET w == [c EXCEPT !.files[Len(c.files)].rows = Append(@, m.id),
                            !.row_count = @ + 1]
         IN  IF w.row_count >= c.max_rows
             THEN [c |-> OpenNewFile([CsvCloseOp(w) EXCEPT
                                         !.file_index = @ + 1, !.row_count = 0]),
                   raised |-> FALSE]
             ELSE [c |-> w, raised |-> FALSE]

\* ------------------------------------------------------------ LogWorker
\* the anomaly loop of _write: log_anomaly for anomalies k..n, stopping at
\* the first call that raises.  failAt = index of the store call of this
\* item that fails in the store (1 = the measurement, k + 1 = anomaly k,
\* 0 = none), kind = how it fails.
FailOf(hit, kind) == IF hit THEN kind ELSE "none"

RECURSIVE LogAnomalies(_, _, _, _, _, _)
LogAnomalies(s, caller, k, n, failAt, kind) ==
    IF k > n
    THEN [s |-> s, raised |-> FALSE, touched |-> FALSE, acalls |-> n]
    ELSE LET r == LogAnomaly(s, caller, FailOf(failAt = k + 1, kind))
         IN  IF r.raised
             THEN [s |-> r.s, raised |-> TRUE, touched |-> r.touched, acalls |-> k]
             ELSE LET rest == LogAnomalies(r.s, caller, k + 1, n, failAt, kind)
                  IN  [rest EXCEPT !.touched = r.touched \/ rest.touched]

\* (variant: one try/except around both sinks, so a store failure skips
\* the CSV write of the item)
WriteSinksOneTry(s, c, hasCsv, caller, m, failAt, kind, csvFail) ==
    LET rm == LogMeasurement(s, caller, m, FailOf(failAt = 1, kind))
        ra == IF rm.raised
              THEN [s |-> rm.s, raised |-> TRUE, touched |-> FALSE, acalls |-> 0]
              ELSE LogAnomalies(rm.s, caller, 1, m.an, failAt, kind)
        rc == IF hasCsv /\ ~ra.raised THEN CsvWriteOp(c, m, csvFail)
                                      ELSE [c |-> c, raised |-> FALSE]
    IN  [sess |-> ra.s, csv |-> rc.c,
         storeRaised |-> ra.raised, csvRaised |-> rc.raised,
         touched |-> rm.touched \/ ra.touched,
         acalls |-> ra.acalls, csvCalled |-> hasCsv /\ ~ra.raised,
         escaped |-> FALSE]

\* (variant: log_measurement in a try/except of its own, the anomalies are
\* logged whether or not it raised)
WriteSinksAnomaliesAnyway(s, c, hasCsv, caller, m, failAt, kind, csvFail) ==
    LET rm == LogMeasurement(s, caller, m, FailOf(failAt = 1, kind))
        ra == LogAnomalies(rm.s, caller, 1, m.an, failAt, kind)
        rc == IF hasCsv THEN CsvWriteOp(c, m, csvFail)
                        ELSE [c |-> c, raised |-> FALSE]
    IN  [sess |-> ra.s, csv |-> rc.c,
         storeRaised |-> rm.raised \/ ra.raised, csvRaised |-> rc.raised,
         touched |-> rm.touched \/ ra.touched,
         acalls |-> ra.acalls, csvCalled |-> hasCsv,
         escaped |-> FALSE]

\* LogWorker._write(m, anomalies): the store inside one try/except, then
\* the CSV writer (if configured) inside another.  escaped = an exception
\* leaves _write (and would end the consumer thread).
WriteSinks(s, c, hasCsv, caller, m, failAt, kind, csvFail) ==
    LET rm == LogMeasurement(s, caller, m, FailOf(failAt = 1, kind))
        ra == IF rm.raised
              THEN [s |-> rm.s, raised |-> TRUE, touched |-> FALSE, acalls |-> 0]
              ELSE LogAnomalies(rm.s, caller, 1, m.an, failAt, kind)
        rc == IF hasCsv THEN CsvWriteOp(c, m, csvFail)
                        ELSE [c |-> c, raised |-> FALSE]
    IN  [sess |-> ra.s, csv |-> rc.c,
         storeRaised |-> ra.raised, csvRaised |-> rc.raised,
         touched |-> rm.touched \/ ra.touched,
         acalls |-> ra.acalls, csvCalled |-> hasCsv,
         escaped |-> FALSE]

\* (variant: on a full queue the oldest entry makes room for the new one)
PushMeasurementDropOldest(queue, maxsize, drops, m) ==
    IF Len(queue) >= maxsize
    THEN [q |-> Append(Tail(queue), m), dropped |-> drops + 1,
          full |-> TRUE, raised |-> FALSE]
    ELSE [q |-> Append(queue, m), dropped |-> drops,
          full |-> FALSE, raised |-> FALSE]

\* LogWorker.push_measurement: put_nowait, queue.Full counted in _dropped.
PushMeasurement(queue, maxsize, drops, m) ==
    LET r == PutNowait(queue, maxsize, m)
    IN  [q |-> r.q, dropped |-> IF r.full THEN drops + 1 ELSE drops,
         full |-> r.full, raised |-> FALSE]

\* ------------------------------------------------------ runner positions
\* The runner is either a free caller of the public API (position "idle",
\* or "joining" while inside LogWorker.stop()), or it follows the call
\* order of the two runners of the repository:
\*   boot -session.start()-> sess -worker.start()-> loop -frame-> loop
\*   loop -worker.stop()-> sjoin -join returns-> stopped
\*   stopped -csv.close()-> closed -session.stop()-> done   (process_cmd
\*                       with a CsvWriter; closesCsv)
\*   stopped -session.stop()-> done                         (otherwise)
ScriptGoto(p, op, closesCsv) ==
    CASE p = "boot"    /\ op = "sstart" -> "sess"
      [] p = "sess"    /\ op = "wstart" -> "loop"
      [] p = "loop"    /\ op = "frame"  -> "loop"
      [] p = "loop"    /\ op = "wstop"  -> "stopped"
      [] p = "stopped" /\ op = "cclose" /\ closesCsv  -> "closed"
      [] p = "stopped" /\ op = "sstop"  /\ ~closesCsv -> "done"
      [] p = "closed"  /\ op = "sstop"  -> "done"
      [] OTHER -> "none"

CanCall(p, op, closesCsv) == p = "idle" \/ ScriptGoto(p, op, closesCsv) # "none"

Goto(p, op, closesCsv) == IF p = "idle" THEN "idle" ELSE ScriptGoto(p, op, closesCsv)

\* process_cmd closes its CsvWriter before session.stop(); PipelineWorker.run
\* never closes the one it creates
ClosesCsv(c) == c.runner = "cli" /\ c.csv

\* position while LogWorker.stop() waits in join()
JoinPos(p) == IF p = "idle" THEN "joining" ELSE "sjoin"

AfterJoin(p) == IF p = "joining" THEN "idle" ELSE "stopped"

HistInit ==
    [pushes |-> 0, fullPushes |-> 0, accepted |-> <<>>,
     logCalls |-> <<>>, csvCalls |-> <<>>, drained |-> FALSE,
     busMeas |-> 0, busAnom |-> 0, directAnoms |-> 0,
     csvWritten |-> <<>>, csvAfterClose |-> 0,
     connThreads |-> {}, failed |-> {}, raised |-> {}]

\* ------------------------------------------------------------------ Init
\* Configurations: queue capacity, which runner's frame loop drives the
\* worker, and whether a CsvWriter is configured (logging.csv_enabled).
Configs == [maxsize : 1..MaxCap, runner : {"cli", "ui"}, csv : BOOLEAN]

\* A free caller of the LogWorker API pushes every measurement and, as in
\* the unit tests, passes csv_writer=None.
FreeConfigs == {c \in Configs : c.runner = "cli" /\ ~c.csv}

Init ==
    /\ cfg \in FreeConfigs
    /\ q = <<>>
    /\ thread = "none"
    /\ dropped = 0
    /\ cpc = "get"
    /\ citem = STOP
    /\ ppc = "idle"
    /\ sess = SessInit
    /\ csv = CsvInit
    /\ frames = 0
    /\ hist = HistInit
    /\ bus = BusInit
    /\ calc = CalcInit

\* the runner follows the call order of process_cmd / PipelineWorker.run
ProgramInit ==
    /\ cfg \in Configs
    /\ q = <<>>
    /\ thread = "none"
    /\ dropped = 0
    /\ cpc = "get"
    /\ citem = STOP
    /\ ppc = "boot"
    /\ sess = SessInit
    /\ csv = CsvInit
    /\ frames = 0
    /\ hist = HistInit
    /\ bus = BusInit
    /\ calc = CalcInit

\* ------------------------------------------------------- runner actions
\* SessionLogger.start() by the runner
SessionStart ==
    /\ CanCall(ppc, "sstart", ClosesCsv(cfg)) /\ ~sess.info
    /\ ppc' = Goto(ppc, "sstart", ClosesCsv(cfg))
    /\ sess' = SessionStartOp(sess, "runner")
    /\ hist' = [hist EXCEPT !.connThreads = @ \cup {"runner"}]
    /\ UNCHANGED <<calc, bus, cfg, q, thread, dropped, cpc, citem, csv, frames>>

\* SessionLogger.stop() by the runner
SessionStop ==
    /\ CanCall(ppc, "sstop", ClosesCsv(cfg))
    /\ ppc' = Goto(ppc, "sstop", ClosesCsv(cfg))
    /\ LET r == SessionStopOp(sess, "runner")
       IN  /\ sess' = r.s
           /\ hist' = [hist EXCEPT
                  !.connThreads = IF r.touched THEN @ \cup {"runner"} ELSE @,
                  !.raised = IF r.raised THEN @ \cup {"SessionLogger.stop"} ELSE @]
    /\ UNCHANGED <<calc, bus, cfg, q, thread, dropped, cpc, citem, csv, frames>>

\* CsvWriter.close() by the runner
CsvClose ==
    /\ cfg.csv /\ CanCall(ppc, "cclose", ClosesCsv(cfg))
    /\ ppc' = Goto(ppc, "cclose", ClosesCsv(cfg))
    /\ csv' = CsvCloseOp(csv)
    /\ UNCHANGED <<calc, bus, cfg, q, thread, dropped, cpc, citem, sess, frames, hist>>

\* LogWorker.start()
\* (variant: start() without the is_alive() test)
StartCreatesAlways(t) == TRUE

\* start(): `if self._thread and self._thread.is_alive(): return`; a Thread
\* is created and started otherwise
StartCreates(t) == t # "alive"

WorkerStartStep ==
    /\ CanCall(ppc, "wstart", ClosesCsv(cfg))
    /\ ppc' = Goto(ppc, "wstart", ClosesCsv(cfg))
    /\ IF StartCreates(thread)
       THEN thread' = "alive" /\ cpc' = "get" /\ citem' = STOP
       ELSE UNCHANGED <<thread, cpc, citem>>
    /\ hist' = [hist EXCEPT !.drained = IF StartCreates(thread) THEN FALSE ELSE @]
    /\ UNCHANGED <<bus, cfg, q, dropped, sess, csv, frames>>

WorkerStart == WorkerStartStep /\ UNCHANGED calc

\* LogWorker.stop(), first half: put_nowait(_STOP), Full is logged only;
\* without a thread object stop() returns at once, otherwise it joins.
StopPut ==
    /\ CanCall(ppc, "wstop", ClosesCsv(cfg))
    /\ LET r == PutNowait(q, cfg.maxsize, STOP)
       IN  /\ q' = r.q
           /\ ppc' = IF thread = "none" THEN Goto(ppc, "wstop", ClosesCsv(cfg))
                                         ELSE JoinPos(ppc)
    /\ UNCHANGED <<calc, bus, cfg, thread, dropped, cpc, citem, sess, csv, frames, hist>>

\* LogWorker.stop(), second half: thread.join(timeout) returns because the
\* thread has ended or because the timeout has elapsed.
\* (variant: join() without a timeout returns only once the thread ended)
JoinReturnsNoTimeout(t) == t = "dead"

JoinReturns(t) == t = "dead" \/ t = "alive"

StopJoin ==
    /\ ppc \in {"joining", "sjoin"}
    /\ JoinReturns(thread)
    /\ ppc' = AfterJoin(ppc)
    /\ UNCHANGED <<calc, bus, cfg, q, thread, dropped, cpc, citem, sess, csv, frames, hist>>

\* One iteration of the runner's frame loop for a frame whose measurement
\* has stagger present (det) and `an` anomalies.
\*   cli: push_measurement, publish "measurement", publish each "anomaly"
\*   ui : push_measurement only when stagger is present; Qt signals, no bus
RunnerPushes(runner, det) == runner = "cli" \/ det

RunnerPublishes(runner) == runner = "cli"

\* one pass of the runner's frame loop for the frame with the given id
PushFrame(id, det, an) ==
    /\ CanCall(ppc, "frame", ClosesCsv(cfg)) /\ frames < MaxFrames
    /\ ppc' = Goto(ppc, "frame", ClosesCsv(cfg))
    /\ frames' = frames + 1
    /\ LET m == Item(id, det, an)
           r == PushMeasurement(q, cfg.maxsize, dropped, m)
       IN  IF RunnerPushes(cfg.runner, det)
           THEN /\ q' = r.q
                /\ dropped' = r.dropped
                /\ hist' = [hist EXCEPT
                     !.pushes = @ + 1,
                     !.fullPushes = IF r.full THEN @ + 1 ELSE @,
                     !.accepted = IF r.full THEN @ ELSE Append(@, m.id),
                     !.raised = IF r.raised THEN @ \cup {"push_measurement"} ELSE @,
                     !.busMeas = IF RunnerPublishes(cfg.runner) THEN @ + 1 ELSE @,
                     !.busAnom = IF RunnerPublishes(cfg.runner) THEN @ + an ELSE @]
           ELSE /\ UNCHANGED <<q, dropped>>
                /\ hist' = [hist EXCEPT
                     !.busMeas = IF RunnerPublishes(cfg.runner) THEN @ + 1 ELSE @,
                     !.busAnom = IF RunnerPublishes(cfg.runner) THEN @ + an ELSE @]
    /\ UNCHANGED <<bus, cfg, thread, cpc, citem, sess, csv>>

\* the frame loop over a source whose ids are 1, 2, ...
Frame(det, an) == PushFrame(frames + 1, det, an) /\ UNCHANGED calc

\* ----------------------------------------------------- consumer actions
\* _run: q.get(timeout=1.0) returned an entry
RunGet ==
    /\ thread = "alive" /\ cpc = "get" /\ q # <<>>
    /\ q' = Tail(q)
    /\ IF Head(q) = STOP
       THEN cpc' = "drain" /\ citem' = STOP
       ELSE cpc' = "write" /\ citem' = Head(q)
    /\ UNCHANGED <<calc, bus, cfg, thread, dropped, ppc, sess, csv, frames, hist>>

\* _run: q.get(timeout=1.0) raised queue.Empty; continue
RunPoll ==
    /\ thread = "alive" /\ cpc = "get" /\ q = <<>>
    /\ UNCHANGED vars

\* _write(m, anomalies); task_done() -- from _run (cpc = "write") or from
\* _drain_remaining (cpc = "dwrite")
WriteStep(failAt, kind, csvFail) ==
    /\ thread = "alive" /\ cpc \in {"write", "dwrite"}
    /\ LET r == WriteSinks(sess, csv, cfg.csv, "worker", citem, failAt, kind, csvFail)
       IN  /\ sess' = r.sess
           /\ csv' = r.csv
           /\ hist' = [hist EXCEPT
                  !.logCalls = Append(@, citem.id),
                  !.csvCalls = IF r.csvCalled THEN Append(@, citem.id) ELSE @,
                  !.drained = @ \/ cpc = "dwrite",
                  !.connThreads = IF r.touched THEN @ \cup {"worker"} ELSE @,
                  !.failed = @ \cup (IF r.storeRaised THEN {"store"} ELSE {})
                               \cup (IF r.csvRaised THEN {"csv"} ELSE {})]
           /\ IF r.escaped
              THEN thread' = "dead" /\ cpc' = "crashed"
              ELSE thread' = thread /\ cpc' = IF cpc = "write" THEN "get" ELSE "drain"
    /\ citem' = STOP
    /\ UNCHANGED <<bus, cfg, q, dropped, ppc, frames>>

Write(failAt, kind, csvFail) == WriteStep(failAt, kind, csvFail) /\ UNCHANGED calc

\* (variant: the drain takes an item off the queue without writing it)
DrainStepDiscard(queue) ==
    IF queue = <<>> THEN [q |-> queue, cpc |-> "exit", item |-> STOP]
    ELSE [q |-> Tail(queue), cpc |-> "drain", item |-> STOP]

\* (variant: a further sentinel ends the drain instead of being skipped)
DrainStepBreakOnStop(queue) ==
    IF queue = <<>> THEN [q |-> queue, cpc |-> "exit", item |-> STOP]
    ELSE IF Head(queue) = STOP THEN [q |-> Tail(queue), cpc |-> "exit", item |-> STOP]
    ELSE [q |-> Tail(queue), cpc |-> "dwrite", item |-> Head(queue)]

\* _drain_remaining: one get_nowait.  Empty ends the drain, a further
\* sentinel is skipped, an item is written.
DrainStep(queue) ==
    IF queue = <<>> THEN [q |-> queue, cpc |-> "exit", item |-> STOP]
    ELSE IF Head(queue) = STOP THEN [q |-> Tail(queue), cpc |-> "drain", item |-> STOP]
    ELSE [q |-> Tail(queue), cpc |-> "dwrite", item |-> Head(queue)]

DrainGet ==
    /\ thread = "alive" /\ cpc = "drain"
    /\ LET r == DrainStep(q)
       IN  q' = r.q /\ cpc' = r.cpc /\ citem' = r.item
    /\ UNCHANGED <<calc, bus, cfg, thread, dropped, ppc, sess, csv, frames, hist>>

\* _run returns: the thread is no longer alive
ThreadExitStep ==
    /\ thread = "alive" /\ cpc = "exit"
    /\ thread' = "dead" /\ cpc' = "get"
    /\ UNCHANGED <<bus, cfg, q, dropped, citem, ppc, sess, csv, frames, hist>>

ThreadExit == ThreadExitStep /\ UNCHANGED calc

\* ------------------------------------------------------------------ Next
ConsumerProgress ==
    \/ RunGet
    \/ \E f \in 0..(1 + MaxAnoms) : \E k \in FailKinds \ {"none"} :
          \E cf \in BOOLEAN : Write(f, k, cf)
    \/ DrainGet
    \/ ThreadExit

Consumer ==
    \/ ConsumerProgress
    \/ RunPoll

\* the same write with the calls it made kept in calc: the item, whether
\* log_measurement raised, how many log_anomaly calls were made, whether
\* the store's try block was left by an exception
WriteLogged(failAt, kind, csvFail) ==
    /\ WriteStep(failAt, kind, csvFail)
    /\ LET r == WriteSinks(sess, csv, cfg.csv, "worker", citem, failAt, kind, csvFail)
           rm == LogMeasurement(sess, "worker", citem, FailOf(failAt = 1, kind))
       IN  calc' = [written |-> TRUE, item |-> citem, connOpen |-> sess.conn = "open",
                    mRaised |-> rm.raised, acalls |-> r.acalls,
                    storeRaised |-> r.storeRaised]

WriteInit ==
    /\ cfg = [maxsize |-> 1, runner |-> "cli", csv |-> FALSE]
    /\ q = <<>>
    /\ thread = "none"
    /\ dropped = 0
    /\ cpc = "get"
    /\ citem = STOP
    /\ ppc = "idle"
    /\ sess = SessInit
    /\ csv = CsvInit
    /\ frames = 0
    /\ hist = HistInit
    /\ bus = BusInit
    /\ calc = [written |-> FALSE, item |-> Item(0, FALSE, 0), connOpen |-> FALSE,
               mRaised |-> FALSE, acalls |-> 0, storeRaised |-> FALSE]

WriteNext ==
    \/ SessionStart
    \/ SessionStop
    \/ WorkerStart
    \/ StopPut
    \/ StopJoin
    \/ \E k \in FrameKinds : Frame(k[1], k[2])
    \/ RunGet
    \/ \E f \in 0..(1 + MaxAnoms) : \E k \in FailKinds \ {"none"} :
          \E cf \in BOOLEAN : WriteLogged(f, k, cf)
    \/ DrainGet
    \/ ThreadExit
    \/ RunPoll

WriteSpec == WriteInit /\ [][WriteNext]_vars

\* ---------------------------------------------- consumer threads counted
\* The LogWorker with its Thread objects counted in calc: start() calls
\* made, threads created, threads whose _run has not returned.
LifecycleInit ==
    /\ cfg = [maxsize |-> 1, runner |-> "cli", csv |-> FALSE]
    /\ q = <<>>
    /\ thread = "none"
    /\ dropped = 0
    /\ cpc = "get"
    /\ citem = STOP
    /\ ppc = "idle"
    /\ sess = SessInit
    /\ csv = CsvInit
    /\ frames = 0
    /\ hist = HistInit
    /\ bus = BusInit
    /\ calc = [starts |-> 0, created |-> 0, live |-> 0]

LifecycleStart ==
    /\ calc.starts < MaxStarts
    /\ WorkerStartStep
    /\ calc' = [starts |-> calc.starts + 1,
                created |-> IF StartCreates(thread) THEN calc.created + 1
                                                    ELSE calc.created,
                live |-> IF StartCreates(thread) THEN calc.live + 1 ELSE calc.live]

LifecycleExit ==
    /\ ThreadExitStep
    /\ calc' = [calc EXCEPT !.live = @ - 1]

LifecycleNext ==
    \/ LifecycleStart
    \/ StopPut
    \/ StopJoin
    \/ \E k \in FrameKinds : Frame(k[1], k[2])
    \/ RunGet
    \/ \E f \in 0..(1 + MaxAnoms) : \E k \in FailKinds \ {"none"} :
          \E cf \in BOOLEAN : Write(f, k, cf)
    \/ DrainGet
    \/ LifecycleExit
    \/ RunPoll

LifecycleSpec == LifecycleInit /\ [][LifecycleNext]_vars

\* a free caller: any public operation of LogWorker / SessionLogger, in
\* any order
Next ==
    \/ SessionStart
    \/ SessionStop
    \/ WorkerStart
    \/ StopPut
    \/ StopJoin
    \/ \E k \in FrameKinds : Frame(k[1], k[2])
    \/ Consumer

Spec == Init /\ [][Next]_vars

\* the runners of the repository: scripted call order, CsvWriter included
ProgramRunner ==
    \/ SessionStart
    \/ WorkerStart
    \/ \E k \in FrameKinds : Frame(k[1], k[2])
    \/ StopPut
    \/ StopJoin
    \/ CsvClose
    \/ SessionStop

ProgramNext ==
    \/ ProgramRunner
    \/ Consumer

ProgramSpec == ProgramInit /\ [][ProgramNext]_vars

\* -------------------------------------------- SessionLogger used directly
\* A caller that uses a SessionLogger on its own thread (the thread that
\* called start()): start, log_measurement, log_anomaly, stop in any order,
\* each store call failing in execute(), in commit(), or not at all.
DirectLogMeasurement(fail) ==
    /\ ppc = "idle" /\ frames < MaxFrames
    /\ frames' = frames + 1
    /\ LET r == LogMeasurement(sess, "runner", Item(frames + 1, TRUE, 0), fail)
       IN  /\ sess' = r.s
           /\ hist' = [hist EXCEPT
                  !.connThreads = IF r.touched THEN @ \cup {"runner"} ELSE @,
                  !.raised = IF r.raised THEN @ \cup {"log_measurement"} ELSE @]
    /\ UNCHANGED <<calc, bus, cfg, q, thread, dropped, cpc, citem, ppc, csv>>

DirectLogAnomaly(fail) ==
    /\ ppc = "idle" /\ hist.directAnoms < MaxFrames * MaxAnoms
    /\ LET r == LogAnomaly(sess, "runner", fail)
       IN  /\ sess' = r.s
           /\ hist' = [hist EXCEPT
                  !.directAnoms = @ + 1,
                  !.connThreads = IF r.touched THEN @ \cup {"runner"} ELSE @,
                  !.raised = IF r.raised THEN @ \cup {"log_anomaly"} ELSE @]
    /\ UNCHANGED <<calc, bus, cfg, q, thread, dropped, cpc, citem, ppc, csv, frames>>

SessionInit == Init /\ cfg.maxsize = 1

SessionNext ==
    \/ SessionStart
    \/ SessionStop
    \/ \E f \in FailKinds : DirectLogMeasurement(f)
    \/ \E f \in FailKinds : DirectLogAnomaly(f)

SessionSpec == SessionInit /\ [][SessionNext]_vars

\* ------------------------------------------------ CsvWriter used directly
\* A caller that owns a CsvWriter: write, flush, close in any order, a
\* write failing in writerow() or not.  csvWritten = ids whose write()
\* returned normally on an open writer; csvAfterClose = flush()/close()
\* calls made on a closed writer.
CsvWrite(fail) ==
    /\ frames < MaxCsvWrites
    /\ frames' = frames + 1
    /\ LET r == CsvWriteOp(csv, Item(frames + 1, TRUE, 0), fail)
       IN  /\ csv' = r.c
           /\ hist' = [hist EXCEPT
                  !.csvCalls = Append(@, frames + 1),
                  !.csvWritten = IF csv.open /\ ~r.raised
                                 THEN Append(@, frames + 1) ELSE @,
                  !.raised = IF r.raised THEN @ \cup {"CsvWriter.write"} ELSE @]
    /\ UNCHANGED <<calc, bus, cfg, q, thread, dropped, cpc, citem, ppc, sess>>

CsvFlush ==
    /\ hist.csvAfterClose < MaxAfterClose
    /\ LET r == CsvFlushOp(csv)
       IN  /\ csv' = r.c
           /\ hist' = [hist EXCEPT
                  !.csvAfterClose = IF csv.open THEN @ ELSE @ + 1,
                  !.raised = IF r.raised THEN @ \cup {"CsvWriter.flush"} ELSE @]
    /\ UNCHANGED <<calc, bus, cfg, q, thread, dropped, cpc, citem, ppc, sess, frames>>

CsvCloseDirect ==
    /\ hist.csvAfterClose < MaxAfterClose
    /\ csv' = CsvCloseOp(csv)
    /\ hist' = [hist EXCEPT !.csvAfterClose = IF csv.open THEN @ ELSE @ + 1]
    /\ UNCHANGED <<calc, bus, cfg, q, thread, dropped, cpc, citem, ppc, sess, frames>>

CsvSpecInit ==
    /\ cfg = [maxsize |-> 1, runner |-> "cli", csv |-> TRUE]
    /\ q = <<>>
    /\ thread = "none"
    /\ dropped = 0
    /\ cpc = "get"
    /\ citem = STOP
    /\ ppc = "idle"
    /\ sess = SessInit
    /\ csv \in {CsvNew(n) : n \in 1..CsvMaxRows}
    /\ frames = 0
    /\ hist = HistInit
    /\ bus = BusInit
    /\ calc = CalcInit

CsvNext ==
    \/ \E f \in BOOLEAN : CsvWrite(f)
    \/ CsvFlush
    \/ CsvCloseDirect

CsvSpec == CsvSpecInit /\ [][CsvNext]_vars

\* ------------------------------------------------------ DataBus actions
\* Thread t may call the bus from its top level or from inside a handler
\* it is running.
AtCallSite(t) ==
    IF bus.calls[t] = <<>> THEN TRUE ELSE Head(bus.calls[t]).pc = "inhandler"

\* note, in every publish call of the stack that has taken its snapshot of
\* `topic`, that the topic's list has changed since
RECURSIVE MarkChanged(_, _)
MarkChanged(stack, topic) ==
    IF stack = <<>> THEN <<>>
    ELSE LET c == Head(stack)
         IN  <<IF c.topic = topic /\ c.pc # "locked"
               THEN [c EXCEPT !.changedSince = TRUE] ELSE c>>
             \o MarkChanged(Tail(stack), topic)

\* DataBus.subscribe(topic, h) by thread t (the `with self._lock` block)
Subscribe(t, topic, h) ==
    /\ AtCallSite(t) /\ bus.lock = "free" /\ bus.ncalls < MaxBusCalls
    /\ bus' = [bus EXCEPT
           !.reg[topic] = Append(@, h),
           !.removed[topic] = @ \ {h},
           !.calls = [u \in Publishers |-> MarkChanged(bus.calls[u], topic)],
           !.ncalls = @ + 1]
    /\ UNCHANGED <<persist, calc>>

\* DataBus.unsubscribe(topic, h) by thread t
Unsubscribe(t, topic, h) ==
    /\ AtCallSite(t) /\ bus.lock = "free" /\ bus.ncalls < MaxBusCalls
    /\ bus' = [bus EXCEPT
           !.reg[topic] = RemoveFirst(@, h),
           !.removed[topic] = @ \cup {h},
           !.calls = IF h \in Range(bus.reg[topic])
                     THEN [u \in Publishers |-> MarkChanged(bus.calls[u], topic)]
                     ELSE @,
           !.ncalls = @ + 1]
    /\ UNCHANGED <<persist, calc>>

\* DataBus.publish(topic, payload) by thread t: enter, take the lock
PublishLock(t, topic) ==
    /\ AtCallSite(t) /\ bus.lock = "free" /\ bus.ncalls < MaxBusCalls
    /\ Len(bus.calls[t]) < MaxDepth
    /\ bus' = [bus EXCEPT
           !.lock = t,
           !.calls[t] = <<[pc |-> "locked", topic |-> topic, snap |-> <<>>,
                           registered |-> <<>>, i |-> 1, delivered |-> <<>>,
                           caught |-> FALSE, propagated |-> FALSE,
                           changedSince |-> FALSE]>> \o @,
           !.ncalls = @ + 1]
    /\ UNCHANGED <<persist, calc>>

\* publish: copy the topic's handler list, leave the lock
PublishSnapshot(t) ==
    /\ bus.calls[t] # <<>> /\ Head(bus.calls[t]).pc = "locked"
    /\ LET c == Head(bus.calls[t])
       IN  bus' = [bus EXCEPT
              !.lock = LockAfterSnapshot(t),
              !.calls[t] = <<[c EXCEPT !.pc = "deliver",
                                      !.snap = Snapshot(bus.reg, c.topic),
                                      !.registered = bus.reg[c.topic]]>>
                           \o Tail(@)]
    /\ UNCHANGED <<persist, calc>>

\* publish: the for-loop calls the next handler on the publisher's thread
HandlerEnter(t) ==
    /\ bus.calls[t] # <<>>
    /\ LET c == Head(bus.calls[t])
       IN  /\ c.pc = "deliver" /\ c.i <= Len(c.snap)
           /\ bus' = [bus EXCEPT
                 !.calls[t] = <<[c EXCEPT !.pc = "inhandler",
                                         !.delivered = Append(@, HandlerAt(c, bus.reg))]>>
                              \o Tail(@)]
    /\ UNCHANGED <<persist, calc>>

\* the handler returns or raises
HandlerReturn(t, raises) ==
    /\ bus.calls[t] # <<>> /\ Head(bus.calls[t]).pc = "inhandler"
    /\ bus' = [bus EXCEPT
           !.calls[t] = <<AfterHandler(Head(@), raises)>> \o Tail(@)]
    /\ UNCHANGED <<persist, calc>>

\* publish returns (or, with an uncaught exception, is left) after the
\* last handler
PublishReturn(t) ==
    /\ bus.calls[t] # <<>>
    /\ LET c == Head(bus.calls[t])
       IN  /\ c.pc = "deliver" /\ c.i > Len(c.snap)
           /\ bus' = [bus EXCEPT !.calls[t] = Tail(@)]
    /\ UNCHANGED <<persist, calc>>

BusSpecInit ==
    /\ cfg = [maxsize |-> 1, runner |-> "cli", csv |-> FALSE]
    /\ q = <<>>
    /\ thread = "none"
    /\ dropped = 0
    /\ cpc = "get"
    /\ citem = STOP
    /\ ppc = "idle"
    /\ sess = SessInit
    /\ csv = CsvInit
    /\ frames = 0
    /\ hist = HistInit
    /\ bus = BusInit
    /\ calc = CalcInit

BusNext ==
    \E t \in Publishers :
        \/ \E tp \in Topics, h \in Handlers : Subscribe(t, tp, h)
        \/ \E tp \in Topics, h \in Handlers : Unsubscribe(t, tp, h)
        \/ \E tp \in Topics : PublishLock(t, tp)
        \/ PublishSnapshot(t)
        \/ HandlerEnter(t)
        \/ \E raises \in BOOLEAN : HandlerReturn(t, raises)
        \/ PublishReturn(t)

BusSpec == BusSpecInit /\ [][BusNext]_vars

\* -------------------------------------------------- RulesEngine actions
\* anomalies = engine.evaluate(m)
RulesEvaluate(m) ==
    /\ calc' = [calc EXCEPT !.evaluated = TRUE, !.m = m,
                            !.anomalies = Evaluate(m, calc.thresholds)]
    /\ UNCHANGED <<persist, bus>>

RulesSpecInit ==
    /\ cfg = [maxsize |-> 1, runner |-> "cli", csv |-> FALSE]
    /\ q = <<>>
    /\ thread = "none"
    /\ dropped = 0
    /\ cpc = "get"
    /\ citem = STOP
    /\ ppc = "idle"
    /\ sess = SessInit
    /\ csv = CsvInit
    /\ frames = 0
    /\ hist = HistInit
    /\ bus = BusInit
    /\ calc \in {[CalcInit EXCEPT !.thresholds = t] : t \in ThresholdSets}

RulesNext == \E m \in Measurements : RulesEvaluate(m)

RulesSpec == RulesSpecInit /\ [][RulesNext]_vars

\* the same engine under every diameter configuration (four limits, in any
\* order), the stagger limits being the default ones
AllDiameterThresholds ==
    [min_critical_mm : 0..MaxThr, min_warning_mm : 0..MaxThr,
     max_warning_mm : 0..MaxThr, max_critical_mm : 0..MaxThr]

DiameterSpecInit ==
    /\ cfg = [maxsize |-> 1, runner |-> "cli", csv |-> FALSE]
    /\ q = <<>>
    /\ thread = "none"
    /\ dropped = 0
    /\ cpc = "get"
    /\ citem = STOP
    /\ ppc = "idle"
    /\ sess = SessInit
    /\ csv = CsvInit
    /\ frames = 0
    /\ hist = HistInit
    /\ bus = BusInit
    /\ calc \in {[CalcInit EXCEPT !.thresholds.diameter = t] :
                    t \in AllDiameterThresholds}

DiameterSpec == DiameterSpecInit /\ [][RulesNext]_vars

\* ids of the items waiting in the queue, and of the item the consumer has
\* taken but not yet written
RECURSIVE Ids(_)
Ids(seq) ==
    IF seq = <<>> THEN <<>>
    ELSE IF Head(seq) = STOP THEN Ids(Tail(seq))
    ELSE <<Head(seq).id>> \o Ids(Tail(seq))

Queued == Ids(q)

InHand == IF citem = STOP THEN <<>> ELSE <<citem.id>>

\* ======================================================== LogWorker: C1
\* C1: when the consumer, having received the stop sentinel, finds the
\* queue empty and leaves _drain_remaining, every item push_measurement
\* accepted so far has been handed to SessionLogger.log_measurement exactly
\* once and in queue order; the pushes not handed over are exactly the
\* dropped ones.
C1_DrainWritesAll ==
    [][(cpc = "drain" /\ cpc' = "exit") =>
          /\ hist'.logCalls = hist'.accepted
          /\ hist'.pushes = Len(hist'.logCalls) + dropped']_vars

\* the consumer has exited after its drain wrote at least one item that was
\* still queued behind the sentinel
C1_Witness ==
    /\ thread = "dead" /\ hist.drained
    /\ Len(hist.accepted) >= 2
    /\ hist.logCalls = hist.accepted

\* ======================================================== LogWorker: C2
\* C2: a push_measurement call returns at once without raising; on a full
\* queue it leaves the queue as it is and adds 1 to dropped_count, otherwise
\* it appends the item and leaves dropped_count; dropped_count never
\* decreases and always equals the number of pushes that found the queue
\* full.
C2_PushDropsOnFull ==
    [][/\ dropped' >= dropped
       /\ hist'.fullPushes = dropped'
       /\ "push_measurement" \notin hist'.raised
       /\ (hist'.pushes = hist.pushes + 1) =>
             /\ ppc' = ppc
             /\ IF Len(q) >= cfg.maxsize
                THEN q' = q /\ dropped' = dropped + 1
                ELSE /\ Len(q') = Len(q) + 1
                     /\ SubSeq(q', 1, Len(q)) = q
                     /\ q'[Len(q')].id = frames'
                     /\ dropped' = dropped]_vars

\* capacity 1, no consumer: the first push was accepted, the second dropped
C2_Witness ==
    /\ cfg.maxsize = 1 /\ thread = "none"
    /\ hist.pushes = 2 /\ hist.accepted = <<1>> /\ dropped = 1
    /\ q = <<Item(1, q[1].det, q[1].an)>>

\* ======================================================== LogWorker: C3
\* C3: when the runner has gone through session.start(), worker.start(),
\* N pushes with N <= capacity, worker.stop() and session.stop(), nothing
\* was dropped and the measurements table holds exactly N rows.
C3_AllRowsPersisted ==
    (ppc = "done" /\ hist.pushes <= cfg.maxsize) =>
        (dropped = 0 /\ Len(sess.mrows) = hist.pushes)

\* ======================================================== LogWorker: C4
\* C4: after start() and stop() the consumer thread ends, whatever the
\* queue held when stop() was called: once the runner has run to its end and
\* the consumer has no item or sentinel left to handle, the thread is no
\* longer alive.
C4_StopEndsThread ==
    (ppc = "done" /\ ~ENABLED ConsumerProgress) => thread = "dead"

\* ======================================================== LogWorker: C5
\* C5: a sink that raises while the consumer handles an item does not end
\* the consumer thread, does not keep the other sink from being called for
\* the same item, and nothing reaches the runner: the CsvWriter (when
\* configured) has been called for exactly the items the store has been
\* called for, every accepted item has been handed to the sinks or is still
\* in the consumer's hand or in the queue, and no LogWorker call of the
\* runner has raised.
C5_SinkFailureConfined ==
    /\ cpc # "crashed"
    /\ cfg.csv => hist.csvCalls = hist.logCalls
    /\ hist.accepted = hist.logCalls \o InHand \o Queued
    /\ hist.raised \subseteq {"SessionLogger.stop"}

\* both sinks have raised after the first item, the consumer is alive and has handled every
\* accepted item, at least two
C5_Witness ==
    /\ hist.failed = {"store", "csv"}
    /\ thread = "alive" /\ cpc = "get"
    /\ Len(hist.logCalls) >= 2
    /\ hist.csvCalls = hist.logCalls
    /\ hist.logCalls = hist.accepted

\* ======================================================== LogWorker: C6
\* C6: no deadlock between the runner and the consumer thread: until the
\* runner has finished, the runner can take a step or the consumer can make
\* progress; a live consumer can always take a step (an item, or the
\* timeout of its blocking get); and inside the frame loop both enqueue
\* operations of the runner are possible whatever the queue holds.
C6_NoDeadlock ==
    /\ (ppc # "done") => (ENABLED ProgramRunner \/ ENABLED ConsumerProgress)
    /\ (thread = "alive") => ENABLED Consumer
    /\ (ppc = "loop") =>
          /\ ENABLED StopPut
          /\ (frames < MaxFrames) => ENABLED (\E k \in FrameKinds : Frame(k[1], k[2]))

\* the runner waits in join() while the consumer waits on an empty queue
\* for a sentinel that will not come
C6_Witness ==
    /\ ppc = "sjoin" /\ thread = "alive" /\ cpc = "get" /\ q = <<>>

\* ==================================================== SessionLogger: C7
\* C7: only the LogWorker thread ever operates on the store connection.
C7_OnlyWorkerThread == hist.connThreads \subseteq {"worker"}

\* ======================================================== LogWorker: C8
\* a stop() has been called before and no consumer is running
AlreadyStopped ==
    \/ thread = "dead"
    \/ thread = "none" /\ \E i \in 1..Len(q) : q[i] = STOP

\* C8: stop() on a worker that is already stopped (its consumer has ended,
\* or it was never started and an earlier stop() left its sentinel) leaves
\* the queue, the thread status and dropped_count unchanged.
C8_StopIdempotent ==
    [][(StopPut /\ AlreadyStopped) => UNCHANGED <<q, thread, dropped>>]_vars

\* ============================================================ runner: C9
\* C9: every frame the runner processes is pushed to the LogWorker exactly
\* once and its measurement and each of its anomalies are published on the
\* DataBus, detection misses included.
C9_EveryFramePushed ==
    [][\A k \in FrameKinds : Frame(k[1], k[2]) =>
          /\ hist'.pushes = hist.pushes + 1
          /\ hist'.busMeas = hist.busMeas + 1
          /\ hist'.busAnom = hist.busAnom + k[2]]_vars

\* =================================================== SessionLogger: C10
\* C10: while the session is open, total_frames and the number of
\* measurement rows both equal the number of log_measurement calls made.
C10_EveryCallCounted ==
    (sess.conn = "open") =>
        /\ sess.total_frames = Len(hist.logCalls)
        /\ Len(sess.mrows) = Len(hist.logCalls)

\* =================================================== SessionLogger: C11
\* C11: between start() and stop(), total_frames equals the number of
\* measurement rows persisted and anomaly_count the number of anomaly rows
\* persisted; in particular a call whose insert or commit failed has added
\* neither a row nor a count.
C11_CountersMatchRows ==
    (sess.conn = "open") =>
        /\ sess.total_frames = Len(sess.mrows)
        /\ sess.anomaly_count = sess.arows

\* =================================================== SessionLogger: C12
\* C12: the session row exists with ended_at NULL exactly while the session
\* is open; once stop() has returned the row is ended, carries the final
\* counters, these equal the numbers of measurement and anomaly rows in the
\* store, the connection is closed, and no step adds a row afterwards.
C12_SessionRowFinal ==
    /\ [](/\ (sess.conn = "open") <=> (sess.srow = "open")
          /\ (sess.srow = "ended") =>
                /\ sess.conn = "none"
                /\ sess.srow_frames = sess.total_frames
                /\ sess.srow_anoms = sess.anomaly_count
                /\ sess.srow_frames = Len(sess.mrows)
                /\ sess.srow_anoms = sess.arows)
    /\ [][(sess.srow = "ended") =>
              (sess'.mrows = sess.mrows /\ sess'.arows = sess.arows)]_vars

\* =================================================== SessionLogger: C13
\* C13: SessionLogger.stop() on a logger that was never started raises and
\* changes nothing: no store, no session row, counters untouched.
C13_StopBeforeStartRaises ==
    [][(SessionStop /\ ~sess.info) =>
          /\ "SessionLogger.stop" \in hist'.raised
          /\ sess' = sess /\ sess = SessInit]_vars

\* stop() has raised on a logger that was never started
C13_Witness ==
    /\ "SessionLogger.stop" \in hist.raised
    /\ ~sess.info /\ sess = SessInit

\* ======================================================= CsvWriter: C14
\* data lines of a file (what follows its first line), and of all files in
\* the order the files were opened
DataRows(f) == Tail(f.rows)

RECURSIVE AllDataRows(_)
AllDataRows(fs) ==
    IF fs = <<>> THEN <<>> ELSE DataRows(Head(fs)) \o AllDataRows(Tail(fs))

\* C14: rollover is transparent.  Whatever write() calls were made, the
\* data lines of the files, read in file order, are exactly the rows whose
\* write() returned, in call order, each once; every file starts with one
\* header line and has no other; no file holds more than max_rows data
\* lines; file number i is named by part index i - 1 (_partNNN, none for
\* the first); every file but the current one is full, the current one
\* holds row_count < max_rows lines; and a write() on an open writer leaves
\* the writer open, moving the index by exactly 1 when it fills the file.
C14_RolloverTransparent ==
    /\ [](/\ AllDataRows(csv.files) = hist.csvWritten
          /\ Len(csv.files) = csv.file_index + 1
          /\ \A i \in 1..Len(csv.files) :
                LET f == csv.files[i] IN
                /\ f.rows # <<>> /\ f.rows[1] = HEADER
                /\ \A j \in 2..Len(f.rows) : f.rows[j] # HEADER
                /\ Len(DataRows(f)) <= csv.max_rows
                /\ f.name = PartSuffix(i - 1)
                /\ (i > 1) => Len(f.name) = 3
                /\ (i < Len(csv.files)) => Len(DataRows(f)) = csv.max_rows
                /\ (i = Len(csv.files)) =>
                      (Len(DataRows(f)) = csv.row_count /\ csv.row_count < csv.max_rows))
    /\ [][(csv.open /\ frames' = frames + 1) =>
             /\ csv'.open
             /\ csv'.file_index =
                  IF Len(hist'.csvWritten) > Len(hist.csvWritten)
                     /\ csv.row_count + 1 = csv.max_rows
                  THEN csv.file_index + 1 ELSE csv.file_index]_vars

\* max_rows 2, never closed by the caller: two files were filled and a
\* third is open
C14_Witness ==
    /\ csv.max_rows = 2 /\ csv.open /\ csv.file_index = 2
    /\ Len(hist.csvWritten) >= 4
    /\ csv.files[3].name = <<0, 0, 2>>

\* ======================================================= CsvWriter: C15
\* C15: close() and flush() on a closed writer raise nothing and change
\* nothing (file handle, row count, file index, files); and right after a
\* flush() or close() a further flush() or close() of the same kind would
\* change nothing.
C15_CloseFlushIdempotent ==
    [][/\ (~csv.open /\ (CsvFlush \/ CsvCloseDirect)) =>
             (csv' = csv /\ hist'.raised = hist.raised)
       /\ CsvFlush => (CsvFlushOp(csv').c = csv' /\ ~CsvFlushOp(csv').raised)
       /\ CsvCloseDirect => CsvCloseOp(csv') = csv']_vars

\* a writer that holds rows was closed, and flush()/close() were called on
\* it twice more
C15_Witness ==
    /\ ~csv.open /\ hist.csvAfterClose >= 2
    /\ Len(hist.csvWritten) >= 1

\* ========================================================= DataBus: C16
\* the publish calls that have left their loop and are about to return,
\* with their thread
Returning ==
    {<<t, Head(bus.calls[t])>> : t \in {u \in Publishers :
        IF bus.calls[u] = <<>> THEN FALSE
        ELSE LET c == Head(bus.calls[u])
             IN  c.pc = "deliver" /\ c.i > Len(c.snap)}}

\* C16: when a publish call returns, the handlers it has invoked are the
\* handlers registered for its topic, in subscription order, one invocation
\* per registration, all made by the publishing thread before the call
\* returned; with no subscriber nothing was invoked; nothing is raised to
\* the publisher; the call itself changes no registration.
C16_DeliveryInSubscriptionOrder ==
    [][\A t \in Publishers : PublishReturn(t) =>
          LET c == Head(bus.calls[t]) IN
          /\ c.delivered = c.registered
          /\ (c.registered = <<>>) => (c.delivered = <<>>)
          /\ ~c.propagated
          /\ bus'.reg = bus.reg]_vars

\* a publish is about to return after invoking h2 then h1, the order in
\* which they had subscribed
C16_Witness ==
    \E r \in Returning :
        /\ r[2].delivered = <<"h2", "h1">>
        /\ r[2].registered = <<"h2", "h1">>

\* ========================================================= DataBus: C17
\* C17: a handler that raises does not end the publish call: the loop goes
\* on with the next handler of the same call, nothing propagates to the
\* publisher, and a call in which a handler raised still reaches its return
\* having invoked every handler of its list.
C17_RaisingHandlerCaught ==
    /\ [][\A t \in Publishers : HandlerReturn(t, TRUE) =>
             LET c == Head(bus.calls[t])
                 d == Head(bus'.calls[t]) IN
             /\ Len(bus'.calls[t]) = Len(bus.calls[t])
             /\ d.pc = "deliver" /\ d.i = c.i + 1 /\ d.snap = c.snap
             /\ ~d.propagated]_vars
    /\ [](\A r \in Returning :
             /\ ~r[2].propagated
             /\ Len(r[2].delivered) = Len(r[2].registered))

\* a publish in which a handler raised is about to return, both handlers
\* of the topic invoked
C17_Witness ==
    \E r \in Returning :
        /\ r[2].caught /\ ~r[2].propagated
        /\ Len(r[2].delivered) = 2

\* ========================================================= DataBus: C18
\* C18: a publish call delivers to the list registered when it took its
\* snapshot: what it has delivered so far is a prefix of that list whatever
\* subscribe/unsubscribe happened since (from another thread or from one of
\* its handlers), and a call about to return whose topic changed under way
\* has delivered exactly that list; the lock is held only between entering
\* publish and taking the snapshot, never while the thread runs the loop or
\* a handler's own code (a publish called by the handler takes and leaves
\* the lock in turn); publish calls of different threads in progress
\* together each keep their own snapshot.
C18_SnapshotOutsideLock ==
    /\ \A t \in Publishers : \A k \in 1..Len(bus.calls[t]) :
          LET c == bus.calls[t][k] IN
          /\ (c.pc # "locked") =>
                /\ c.snap = c.registered
                /\ Len(c.delivered) <= Len(c.registered)
                /\ c.delivered = SubSeq(c.registered, 1, Len(c.delivered))
          /\ (k = 1 /\ c.pc \in {"deliver", "inhandler"}) => bus.lock # t
    /\ (bus.lock # "free") =>
          (bus.calls[bus.lock] # <<>> /\ Head(bus.calls[bus.lock]).pc = "locked")
    /\ \A r \in Returning :
          r[2].changedSince => r[2].delivered = r[2].registered

\* a publish whose topic's list was changed after its snapshot is about to
\* return having invoked a handler, while another thread is inside a
\* handler of its own publish call
C18_Witness ==
    \E r \in Returning :
        /\ r[2].changedSince /\ r[2].delivered # <<>>
        /\ \E u \in Publishers \ {r[1]} :
              IF bus.calls[u] = <<>> THEN FALSE
              ELSE Head(bus.calls[u]).pc = "inhandler"

\* ========================================================= DataBus: C19
\* C19: after unsubscribe(topic, h) the topic's list no longer contains h,
\* however often h had been subscribed, so a publish that takes its
\* snapshot later (h not subscribed again) does not invoke h; unsubscribing
\* a handler that is not registered leaves the registry unchanged.
C19_UnsubscribeRemoves ==
    /\ [][\A t \in Publishers, tp \in Topics, h \in Handlers :
             Unsubscribe(t, tp, h) =>
                /\ h \notin Range(bus'.reg[tp])
                /\ (h \notin Range(bus.reg[tp])) => bus'.reg = bus.reg]_vars
    /\ [](\A t \in Publishers : \A k \in 1..Len(bus.calls[t]) :
             LET c == bus.calls[t][k] IN
             (c.pc = "deliver" /\ c.i = 1 /\ ~c.changedSince) =>
                Range(c.snap) \cap bus.removed[c.topic] = {})

\* ===================================================== RulesEngine: C20
\* the stagger anomalies of the last evaluation
StaggerAnomalies ==
    SelectSeq(calc.anomalies,
              LAMBDA a : a.anomaly_type \in {"STAGGER_RIGHT", "STAGGER_LEFT"})

\* C20: for a measurement with stagger present and any pair of stagger
\* thresholds, evaluate returns at most one stagger anomaly: a CRITICAL one
\* iff |value| >= critical_mm; failing that a WARNING one iff
\* |value| >= warning_mm; failing that none.  Its type is STAGGER_RIGHT iff
\* value >= 0, else STAGGER_LEFT; its value is the stagger; its threshold
\* is the breached limit taken with the sign of the direction (the limit
\* for RIGHT, minus the limit for LEFT).
C20_StaggerOneAnomaly ==
    (calc.evaluated /\ calc.m.stagger_mm.present) =>
        LET v == calc.m.stagger_mm.v
            w == calc.thresholds.stagger.warning_mm
            c == calc.thresholds.stagger.critical_mm
            S == StaggerAnomalies
            crit == Abs(v) >= c
            warn == ~crit /\ Abs(v) >= w
        IN  /\ Len(S) <= 1
            /\ Len(S) = (IF crit \/ warn THEN 1 ELSE 0)
            /\ \A i \in 1..Len(S) :
                  /\ (S[i].severity = "CRITICAL") <=> crit
                  /\ (S[i].severity = "WARNING") <=> warn
                  /\ (S[i].anomaly_type = "STAGGER_RIGHT") <=> (v >= 0)
                  /\ (S[i].anomaly_type = "STAGGER_LEFT") <=> (v < 0)
                  /\ S[i].value = v
                  /\ Abs(S[i].threshold) = Abs(IF crit THEN c ELSE w)
                  /\ S[i].threshold * (IF v >= 0 THEN 1 ELSE -1)
                        = (IF crit THEN c ELSE w)

\* a stagger exactly at the critical boundary on the left, with
\* 0 < warning < critical: one CRITICAL STAGGER_LEFT, threshold -critical
C20_Witness ==
    /\ calc.evaluated /\ calc.m.stagger_mm.present
    /\ calc.thresholds.stagger.warning_mm > 0
    /\ calc.thresholds.stagger.critical_mm > calc.thresholds.stagger.warning_mm
    /\ calc.m.stagger_mm.v = -calc.thresholds.stagger.critical_mm
    /\ StaggerAnomalies =
         <<Anomaly("STAGGER_LEFT", calc.m.stagger_mm.v,
                   -calc.thresholds.stagger.critical_mm, "CRITICAL")>>

\* ================================================== VideoFileProvider
\* VideoFileProvider.__init__ and open(): frame_skip = max(1, frame_skip);
\* the capture is positioned at start_frame and _frame_id set to it only
\* when start_frame > 0
ProviderOpen(frame_skip, start_frame, end_frame) ==
    [frame_skip |-> IF frame_skip < 1 THEN 1 ELSE frame_skip,
     start_frame |-> start_frame, end_frame |-> end_frame,
     pos |-> IF start_frame > 0 THEN start_frame ELSE 0,
     frame_id |-> IF start_frame > 0 THEN start_frame ELSE 0,
     yielded |-> <<>>, done |-> FALSE]

\* next_frame, the skip loop: n times cap.grab(), _frame_id += 1; a failed
\* grab (end of file) ends the call
RECURSIVE SkipFrames(_, _)
SkipFrames(p, n) ==
    IF n = 0 THEN [p |-> p, ok |-> TRUE]
    ELSE IF p.pos >= VideoLen THEN [p |-> p, ok |-> FALSE]
    ELSE SkipFrames([p EXCEPT !.pos = @ + 1, !.frame_id = @ + 1], n - 1)

\* (variant: _frame_id is not advanced after the frame is built)
NextFrameNoAdvance(p) ==
    LET s == SkipFrames(p, p.frame_skip - 1)
    IN  IF ~s.ok THEN [p |-> [s.p EXCEPT !.done = TRUE], frame |-> None]
        ELSE IF s.p.pos >= VideoLen
        THEN [p |-> [s.p EXCEPT !.done = TRUE], frame |-> None]
        ELSE LET r == [s.p EXCEPT !.pos = @ + 1]
             IN  IF r.end_frame >= 0 /\ r.frame_id > r.end_frame
                 THEN [p |-> [r EXCEPT !.done = TRUE], frame |-> None]
                 ELSE [p |-> [r EXCEPT !.yielded = Append(@, r.frame_id)],
                       frame |-> Some(r.frame_id)]

\* VideoFileProvider.next_frame: skip, read, end_frame test, build the
\* frame with the current _frame_id, then _frame_id += frame_skip.  None
\* ends FrameProvider.frames().
NextFrame(p) ==
    LET s == SkipFrames(p, p.frame_skip - 1)
    IN  IF ~s.ok THEN [p |-> [s.p EXCEPT !.done = TRUE], frame |-> None]
        ELSE IF s.p.pos >= VideoLen
        THEN [p |-> [s.p EXCEPT !.done = TRUE], frame |-> None]
        ELSE LET r == [s.p EXCEPT !.pos = @ + 1]
             IN  IF r.end_frame >= 0 /\ r.frame_id > r.end_frame
                 THEN [p |-> [r EXCEPT !.done = TRUE], frame |-> None]
                 ELSE [p |-> [r EXCEPT !.yielded = Append(@, r.frame_id),
                                       !.frame_id = @ + r.frame_skip],
                       frame |-> Some(r.frame_id)]

\* the providers explored: frame_skip 0 (taken as 1) .. MaxSkip, start_frame
\* -1 (no seek) .. 1, with and without an end_frame
Providers ==
    {ProviderOpen(k, s, e) : k \in 0..MaxSkip, s \in -1..1, e \in {-1, VideoLen - 1}}

\* a runner whose frames come from a VideoFileProvider opened before the
\* loop (process_cmd, PipelineWorker.run)
VideoInit ==
    /\ cfg \in {c \in Configs : c.maxsize = 1 /\ ~c.csv}
    /\ q = <<>>
    /\ thread = "none"
    /\ dropped = 0
    /\ cpc = "get"
    /\ citem = STOP
    /\ ppc = "boot"
    /\ sess = SessInit
    /\ csv = CsvInit
    /\ frames = 0
    /\ hist = HistInit
    /\ bus = BusInit
    /\ calc \in Providers

\* for raw in provider.frames(): one next_frame(); a frame goes through the
\* loop body, None ends the loop
VideoFrame(det, an) ==
    /\ ~calc.done
    /\ LET r == NextFrame(calc)
       IN  /\ calc' = r.p
           /\ IF r.frame.present
              THEN PushFrame(r.frame.v, det, an)
              ELSE /\ CanCall(ppc, "frame", ClosesCsv(cfg))
                   /\ UNCHANGED <<persist, bus>>

VideoNext ==
    \/ SessionStart
    \/ WorkerStart
    \/ \E k \in FrameKinds : VideoFrame(k[1], k[2])
    \/ StopPut
    \/ StopJoin
    \/ SessionStop
    \/ Consumer

VideoSpec == VideoInit /\ [][VideoNext]_vars

\* ======================================================== WireDetector
\* a segment (x1, y1, x2, y2); its mid-Y (y1 + y2) / 2 is kept doubled, its
\* length squared as in the code
Mid2(l) == l.y1 + l.y2

SqLen(l) == (l.x2 - l.x1) * (l.x2 - l.x1) + (l.y2 - l.y1) * (l.y2 - l.y1)

\* sorted(lines, key=mid-Y): stable, equal keys keep their input order
RECURSIVE InsertByMidY(_, _)
InsertByMidY(sorted, l) ==
    IF sorted = <<>> THEN <<l>>
    ELSE IF Mid2(l) < Mid2(Head(sorted)) THEN <<l>> \o sorted
    ELSE <<Head(sorted)>> \o InsertByMidY(Tail(sorted), l)

RECURSIVE SortByMidY(_)
SortByMidY(lines) ==
    IF lines = <<>> THEN <<>>
    ELSE InsertByMidY(SortByMidY(SubSeq(lines, 1, Len(lines) - 1)),
                      lines[Len(lines)])

\* the inner loop of _cluster_lines: the line joins the first cluster whose
\* cluster[0] lies within the tolerance, else it opens a new cluster
RECURSIVE PlaceLine(_, _)
PlaceLine(clusters, l) ==
    IF clusters = <<>> THEN << <<l>> >>
    ELSE IF Abs(Mid2(l) - Mid2(Head(clusters)[1])) <= 2 * CLUSTER_Y_TOLERANCE_PX
    THEN <<Append(Head(clusters), l)>> \o Tail(clusters)
    ELSE <<Head(clusters)>> \o PlaceLine(Tail(clusters), l)

RECURSIVE PlaceAll(_, _)
PlaceAll(clusters, lines) ==
    IF lines = <<>> THEN clusters
    ELSE PlaceAll(PlaceLine(clusters, Head(lines)), Tail(lines))

\* max(seq, key): the first element with the greatest key
RECURSIVE Longest(_)
Longest(cluster) ==
    IF Len(cluster) = 1 THEN cluster[1]
    ELSE LET r == Longest(Tail(cluster))
         IN  IF SqLen(Head(cluster)) >= SqLen(r) THEN Head(cluster) ELSE r

RECURSIVE RepsOf(_)
RepsOf(clusters) ==
    IF clusters = <<>> THEN <<>>
    ELSE <<Longest(Head(clusters))>> \o RepsOf(Tail(clusters))

\* WireDetector._cluster_lines
ClusterLines(lines) == RepsOf(PlaceAll(<<>>, SortByMidY(lines)))

\* WireDetector._elect_lowest_wire: max by mid-Y, the first on a tie
RECURSIVE ElectLowestWire(_)
ElectLowestWire(lines) ==
    IF Len(lines) = 1 THEN lines[1]
    ELSE LET r == ElectLowestWire(Tail(lines))
         IN  IF Mid2(Head(lines)) >= Mid2(r) THEN Head(lines) ELSE r

\* near-horizontal segments as _filter_horizontal passes them on: rows
\* around one and two tolerances apart, level or one pixel down, two lengths
LineRows == {0, 7, 8, 9, 16, 17}

Segments ==
    {[x1 |-> 0, y1 |-> y, x2 |-> w, y2 |-> y + d] :
        y \in LineRows, w \in {2, 4}, d \in {0, 1}}

RECURSIVE SeqsUpTo(_, _)
SeqsUpTo(S, n) ==
    IF n = 0 THEN {<<>>}
    ELSE LET R == SeqsUpTo(S, n - 1)
         IN  R \cup {Append(r, x) : r \in {t \in R : Len(t) = n - 1}, x \in S}

DetectInit ==
    /\ cfg = [maxsize |-> 1, runner |-> "cli", csv |-> FALSE]
    /\ q = <<>>
    /\ thread = "none"
    /\ dropped = 0
    /\ cpc = "get"
    /\ citem = STOP
    /\ ppc = "idle"
    /\ sess = SessInit
    /\ csv = CsvInit
    /\ frames = 0
    /\ hist = HistInit
    /\ bus = BusInit
    /\ calc \in [lines : SeqsUpTo(Segments, MaxLines) \ {<<>>},
                 detected : {FALSE}, reps : {<<>>}, best : {None}]

\* WireDetector.detect, steps 3 and 4: clusters = _cluster_lines(horizontal);
\* best = _elect_lowest_wire(clusters)
Detect ==
    /\ ~calc.detected
    /\ LET clusters == ClusterLines(calc.lines)
       IN  calc' = [calc EXCEPT !.detected = TRUE, !.reps = clusters,
                                !.best = Some(ElectLowestWire(clusters))]
    /\ UNCHANGED <<persist, bus>>

DetectSpec == DetectInit /\ [][Detect]_vars

\* ======================================================== PreProcessor
Min(a, b) == IF a <= b THEN a ELSE b

Max(a, b) == IF a >= b THEN a ELSE b

\* length of seq[start : stop] for a sequence of n entries, start >= 0:
\* a negative stop counts from the end, both ends are cut to 0..n
SliceLen(n, start, stop) ==
    LET e == IF stop < 0 THEN Max(stop + n, 0) ELSE Min(stop, n)
        b == Min(start, n)
    IN  Max(e - b, 0)

\* PreProcessor.run, step 1 (ROI crop) for a w x h BGR image, followed by
\* the conversion to grayscale, which OpenCV refuses for an empty image
RunCrop(w, h, roi) ==
    IF ~roi.present
    THEN [rx |-> 0, ry |-> 0, rw |-> w, rh |-> h, cols |-> w, rows |-> h,
          roi_offset_x |-> 0, roi_offset_y |-> 0, raised |-> FALSE]
    ELSE LET rx == Max(0, Min(roi.v[1], w - 1))
             ry == Max(0, Min(roi.v[2], h - 1))
             rw == Min(roi.v[3], w - rx)
             rh == Min(roi.v[4], h - ry)
             cols == SliceLen(w, rx, rx + rw)
             rows == SliceLen(h, ry, ry + rh)
         IN  [rx |-> rx, ry |-> ry, rw |-> rw, rh |-> rh,
              cols |-> cols, rows |-> rows,
              roi_offset_x |-> rx, roi_offset_y |-> ry,
              raised |-> (cols = 0 \/ rows = 0)]

\* roi = None
NoRoi == [present |-> FALSE, v |-> <<0, 0, 0, 0>>]

\* ProcessingConfig.roi / set_roi: any four integers, or None
Rois ==
    {NoRoi} \cup {Some(<<x, y, w, h>>) :
                    x \in -1..(MaxImg + 1), y \in -1..(MaxImg + 1),
                    w \in -1..(MaxImg + 1), h \in -1..(MaxImg + 1)}

PreInit ==
    /\ cfg = [maxsize |-> 1, runner |-> "cli", csv |-> FALSE]
    /\ q = <<>>
    /\ thread = "none"
    /\ dropped = 0
    /\ cpc = "get"
    /\ citem = STOP
    /\ ppc = "idle"
    /\ sess = SessInit
    /\ csv = CsvInit
    /\ frames = 0
    /\ hist = HistInit
    /\ bus = BusInit
    /\ calc \in [roi : Rois, ran : {FALSE}, w : {1}, h : {1},
                 out : {RunCrop(1, 1, NoRoi)}]

\* PreProcessor.set_roi (the record of the last run is dropped)
SetRoi(roi) ==
    /\ calc' = [roi |-> roi, ran |-> FALSE, w |-> 1, h |-> 1,
                out |-> RunCrop(1, 1, NoRoi)]
    /\ UNCHANGED <<persist, bus>>

\* PreProcessor.run on a w x h frame
PreRun(w, h) ==
    /\ calc' = [calc EXCEPT !.ran = TRUE, !.w = w, !.h = h,
                            !.out = RunCrop(w, h, calc.roi)]
    /\ UNCHANGED <<persist, bus>>

PreNext ==
    \/ \E roi \in Rois : SetRoi(roi)
    \/ \E w \in 1..MaxImg : \E h \in 1..MaxImg : PreRun(w, h)

PreSpec == PreInit /\ [][PreNext]_vars

\* ================================================== MeasurementEngine
\* CalibrationModel.px_to_mm: pixels / px_per_mm, kept as the exact quotient
PxToMm(cal, pixels) == [num |-> pixels, den |-> cal.px_per_mm]

\* CalibrationModel.stagger_from_centre_px
StaggerFromCentrePx(cal, wire_centre_x_px) ==
    PxToMm(cal, wire_centre_x_px - cal.track_centre_x_px)

\* Measurement.is_valid
IsValid(m) == m.stagger_mm.present /\ m.diameter_mm.present

\* (variant: a confidence equal to the minimum is rejected too)
ComputeRejectAtMinimum(cal, min_conf, candidate, roi_offset_x, roi_offset_y) ==
    IF candidate.confidence <= min_conf
    THEN [frame_id |-> candidate.frame_id,
          stagger_mm |-> None, diameter_mm |-> None,
          confidence |-> candidate.confidence,
          wire_bbox |-> None, wire_centre_px |-> None]
    ELSE LET full_cx == candidate.centre_x + roi_offset_x
             full_cy == candidate.centre_y + roi_offset_y
         IN  [frame_id |-> candidate.frame_id,
              stagger_mm |-> Some(StaggerFromCentrePx(cal, full_cx)),
              diameter_mm |-> IF candidate.diameter_px > 0
                              THEN Some(PxToMm(cal, candidate.diameter_px))
                              ELSE None,
              confidence |-> candidate.confidence,
              wire_bbox |-> Some(<<candidate.bbox_x + roi_offset_x,
                                   candidate.bbox_y + roi_offset_y,
                                   candidate.bbox_w, candidate.bbox_h>>),
              wire_centre_px |-> Some(<<full_cx, full_cy>>)]

\* MeasurementEngine.compute
Compute(cal, min_conf, candidate, roi_offset_x, roi_offset_y) ==
    IF candidate.confidence < min_conf
    THEN [frame_id |-> candidate.frame_id,
          stagger_mm |-> None, diameter_mm |-> None,
          confidence |-> candidate.confidence,
          wire_bbox |-> None, wire_centre_px |-> None]
    ELSE LET full_cx == candidate.centre_x + roi_offset_x
             full_cy == candidate.centre_y + roi_offset_y
         IN  [frame_id |-> candidate.frame_id,
              stagger_mm |-> Some(StaggerFromCentrePx(cal, full_cx)),
              diameter_mm |-> IF candidate.diameter_px > 0
                              THEN Some(PxToMm(cal, candidate.diameter_px))
                              ELSE None,
              confidence |-> candidate.confidence,
              wire_bbox |-> Some(<<candidate.bbox_x + roi_offset_x,
                                   candidate.bbox_y + roi_offset_y,
                                   candidate.bbox_w, candidate.bbox_h>>),
              wire_centre_px |-> Some(<<full_cx, full_cy>>)]

\* WireCandidate: every confidence, diameters from below zero up, centres
\* on both sides of the track centre
Candidates ==
    [frame_id : {1}, confidence : 0..MaxConf,
     centre_x : 0..MaxPx, centre_y : {0},
     diameter_px : -1..MaxPx,
     bbox_x : {0}, bbox_y : {0}, bbox_w : {1}, bbox_h : {1}]

\* CalibrationModel.__init__ (px_per_mm > 0 or CalibrationError)
Calibrations == [px_per_mm : 1..MaxPx, track_centre_x_px : {1}]

\* MeasurementEngine.__init__
MeasureInit ==
    /\ cfg = [maxsize |-> 1, runner |-> "cli", csv |-> FALSE]
    /\ q = <<>>
    /\ thread = "none"
    /\ dropped = 0
    /\ cpc = "get"
    /\ citem = STOP
    /\ ppc = "idle"
    /\ sess = SessInit
    /\ csv = CsvInit
    /\ frames = 0
    /\ hist = HistInit
    /\ bus = BusInit
    /\ calc \in [cal : Calibrations, min_conf : 0..MaxConf, computed : {FALSE},
                 candidate : {CHOOSE c \in Candidates : TRUE},
                 m : {Compute(CHOOSE k \in Calibrations : TRUE, MaxConf + 1,
                              CHOOSE c \in Candidates : TRUE, 0, 0)}]

\* one call of MeasurementEngine.compute
MeasureCompute(candidate, ox, oy) ==
    /\ calc' = [calc EXCEPT !.computed = TRUE, !.candidate = candidate,
                            !.m = Compute(calc.cal, calc.min_conf, candidate, ox, oy)]
    /\ UNCHANGED <<persist, bus>>

MeasureNext ==
    \E c \in Candidates : \E ox \in 0..1 : \E oy \in 0..1 : MeasureCompute(c, ox, oy)

MeasureSpec == MeasureInit /\ [][MeasureNext]_vars

\* ===================================================== RulesEngine: C21
\* positions of the last evaluation's anomalies of the given types
PositionsOf(types) ==
    {i \in 1..Len(calc.anomalies) : calc.anomalies[i].anomaly_type \in types}

\* C21: for a measurement with diameter present the two sides are judged
\* separately: exactly one DIAMETER_LOW if value <= min_critical (CRITICAL,
\* threshold min_critical) or else value <= min_warning (WARNING, threshold
\* min_warning), otherwise none; exactly one DIAMETER_HIGH if
\* value >= max_critical (CRITICAL) or else value >= max_warning (WARNING),
\* otherwise none; the presence of one does not depend on the other; every
\* stagger anomaly comes before every diameter anomaly and LOW before HIGH.
\* With the diameter absent there is no diameter anomaly.
C21_DiameterSidesIndependent ==
    calc.evaluated =>
        LET t == calc.thresholds.diameter
            d == calc.m.diameter_mm
            A == calc.anomalies
            Lo == PositionsOf({"DIAMETER_LOW"})
            Hi == PositionsOf({"DIAMETER_HIGH"})
            St == PositionsOf({"STAGGER_RIGHT", "STAGGER_LEFT"})
            loCrit == d.v <= t.min_critical_mm
            loWarn == ~loCrit /\ d.v <= t.min_warning_mm
            hiCrit == d.v >= t.max_critical_mm
            hiWarn == ~hiCrit /\ d.v >= t.max_warning_mm
        IN  IF ~d.present THEN Lo = {} /\ Hi = {}
            ELSE /\ Cardinality(Lo) = (IF loCrit \/ loWarn THEN 1 ELSE 0)
                 /\ Cardinality(Hi) = (IF hiCrit \/ hiWarn THEN 1 ELSE 0)
                 /\ \A i \in Lo :
                       /\ A[i].value = d.v
                       /\ (A[i].severity = "CRITICAL") <=> loCrit
                       /\ (A[i].severity = "WARNING") <=> loWarn
                       /\ A[i].threshold = (IF loCrit THEN t.min_critical_mm
                                                      ELSE t.min_warning_mm)
                 /\ \A i \in Hi :
                       /\ A[i].value = d.v
                       /\ (A[i].severity = "CRITICAL") <=> hiCrit
                       /\ (A[i].severity = "WARNING") <=> hiWarn
                       /\ A[i].threshold = (IF hiCrit THEN t.max_critical_mm
                                                      ELSE t.max_warning_mm)
                 /\ \A i \in St : \A j \in Lo \cup Hi : i < j
                 /\ \A i \in Lo : \A j \in Hi : i < j

\* a diameter inside both bands of a configuration whose bands overlap,
\* with a stagger anomaly: stagger, then LOW WARNING, then HIGH CRITICAL
C21_Witness ==
    /\ calc.evaluated /\ calc.m.diameter_mm.present
    /\ Len(calc.anomalies) = 3
    /\ calc.anomalies[1].anomaly_type = "STAGGER_LEFT"
    /\ calc.anomalies[2] = Anomaly("DIAMETER_LOW", calc.m.diameter_mm.v,
                                   calc.thresholds.diameter.min_warning_mm, "WARNING")
    /\ calc.anomalies[3] = Anomaly("DIAMETER_HIGH", calc.m.diameter_mm.v,
                                   calc.thresholds.diameter.max_critical_mm, "CRITICAL")

\* ================================================ MeasurementEngine: C22
\* C22: the Measurement returned by compute has stagger_mm and diameter_mm
\* both absent exactly when candidate.confidence < min_confidence; it carries
\* the candidate's confidence unchanged; at or above the minimum stagger_mm
\* is present and diameter_mm is absent exactly when diameter_px <= 0; and
\* is_valid() is true exactly when both fields are present.
C22_AbsentIffLowConfidence ==
    calc.computed =>
        LET c == calc.candidate
            m == calc.m
            low == c.confidence < calc.min_conf
        IN  /\ (~m.stagger_mm.present /\ ~m.diameter_mm.present) <=> low
            /\ m.confidence = c.confidence
            /\ m.frame_id = c.frame_id
            /\ ~low => /\ m.stagger_mm.present
                       /\ ~m.diameter_mm.present <=> (c.diameter_px <= 0)
            /\ IsValid(m) <=> (~low /\ c.diameter_px > 0)

\* a candidate exactly at the minimum confidence with no measurable
\* diameter: stagger present, diameter absent, not valid
C22_Witness ==
    /\ calc.computed
    /\ calc.min_conf > 0
    /\ calc.candidate.confidence = calc.min_conf
    /\ calc.candidate.diameter_px = 0
    /\ calc.m.stagger_mm.present /\ ~calc.m.diameter_mm.present
    /\ ~IsValid(calc.m)

\* ================================================ VideoFileProvider: C23
StrictlyIncreasing(seq) == \A i, j \in 1..Len(seq) : i < j => seq[i] < seq[j]

RECURSIVE PlaceByLongest(_, _)
PlaceByLongest(clusters, l) ==
    IF clusters = <<>> THEN << <<l>> >>
    ELSE IF Abs(Mid2(l) - Mid2(Longest(Head(clusters)))) <= 2 * CLUSTER_Y_TOLERANCE_PX
    THEN <<Append(Head(clusters), l)>> \o Tail(clusters)
    ELSE <<Head(clusters)>> \o PlaceByLongest(Tail(clusters), l)

RECURSIVE PlaceAllByLongest(_, _)
PlaceAllByLongest(clusters, lines) ==
    IF lines = <<>> THEN clusters
    ELSE PlaceAllByLongest(PlaceByLongest(clusters, Head(lines)), Tail(lines))

\* C24: the detector sorts the segments by vertical midpoint, merges each
\* into the first cluster whose longest member has its midpoint within 8 px
\* of the segment's (else opens a new cluster), takes each cluster's longest
\* member as representative and elects the representative with the greatest
\* vertical midpoint.
C24_ClusterByRepresentative ==
    calc.detected =>
        /\ calc.reps = RepsOf(PlaceAllByLongest(<<>>, SortByMidY(calc.lines)))
        /\ calc.best.present
        /\ \E i \in 1..Len(calc.reps) : calc.reps[i] = calc.best.v
        /\ \A i \in 1..Len(calc.reps) : Mid2(calc.reps[i]) <= Mid2(calc.best.v)

\* ===================================================== PreProcessor: C25
\* C25: whatever the ROI (negative, zero, beyond the image) and the image
\* size, run does not fail and crops a non-empty region inside the image:
\* 0 <= rx, rx + rw <= width, 0 <= ry, ry + rh <= height, rw >= 1, rh >= 1,
\* the cropped image is rw x rh and roi_offset is (rx, ry).
C25_RoiClamped ==
    (calc.ran /\ calc.roi.present) =>
        LET o == calc.out
        IN  /\ ~o.raised
            /\ 0 <= o.rx /\ o.rx + o.rw <= calc.w
            /\ 0 <= o.ry /\ o.ry + o.rh <= calc.h
            /\ o.rw >= 1 /\ o.rh >= 1
            /\ o.cols = o.rw /\ o.rows = o.rh
            /\ o.roi_offset_x = o.rx /\ o.roi_offset_y = o.ry

\* ==================================================== SessionLogger: C26
\* C26: a consumer write (log_measurement, then log_anomaly per anomaly)
\* made while the SessionLogger has no open connection - before start() or
\* after stop() - changes nothing in the logger (no row, inserted or
\* pending, no counter), raises nothing, is not recorded as a failed write
\* and does not change dropped_count; the consumer goes on.
C26_NoConnectionNoOp ==
    [][(hist'.logCalls # hist.logCalls /\ sess.conn = "none") =>
          /\ sess' = sess
          /\ dropped' = dropped
          /\ hist'.failed = hist.failed
          /\ hist'.raised = hist.raised
          /\ hist'.connThreads = hist.connThreads
          /\ thread' = thread]_vars

\* the session has been stopped, the consumer has written an item with
\* anomalies and never touched a connection: nothing stored, nothing failed
C26_Witness ==
    /\ sess.srow = "ended" /\ sess.conn = "none"
    /\ hist.logCalls # <<>>
    /\ "worker" \notin hist.connThreads
    /\ sess.mrows = <<>> /\ sess.total_frames = 0
    /\ hist.failed = {} /\ dropped = 0

\* ======================================================== LogWorker: C27
IsPrefix(s, t) == Len(s) <= Len(t) /\ SubSeq(t, 1, Len(s)) = s

\* C27: every push is accounted for exactly once: pushes = dropped_count +
\* items in the queue + items the consumer has taken (written or in hand);
\* and while no consumer thread is alive (never started, or exited after its
\* drain) and start() is not called, the queued items stay queued, nothing
\* is written and dropped_count grows only by a push on a full queue.
C27_AcceptedStaysQueued ==
    /\ [](hist.pushes = dropped + Len(Queued) + Len(InHand) + Len(hist.logCalls))
    /\ [][(thread # "alive" /\ thread' # "alive") =>
             /\ IsPrefix(Queued, Queued')
             /\ hist'.logCalls = hist.logCalls
             /\ hist'.csvCalls = hist.csvCalls
             /\ sess'.mrows = sess.mrows
             /\ (dropped' # dropped =>
                   /\ dropped' = dropped + 1
                   /\ hist'.pushes = hist.pushes + 1
                   /\ Queued' = Queued)]_vars

\* the consumer has drained and exited, then a push was accepted: the item
\* sits in the queue, counted neither as written nor as dropped
C27_Witness ==
    /\ thread = "dead" /\ hist.drained
    /\ Len(Queued) = 1 /\ Len(hist.logCalls) = 1
    /\ hist.pushes = 2 /\ dropped = 0

C30_WriteAfterCloseNoOp ==
    [][(hist'.csvCalls # hist.csvCalls /\ ~csv.open) =>
          /\ csv' = csv
          /\ ("csv" \in hist'.failed) => ("csv" \in hist.failed)
          /\ hist'.raised = hist.raised
          /\ dropped' = dropped
          /\ thread' = thread]_vars

\* process_cmd closed the CsvWriter after a join that timed out; of the two
\* rows the consumer wrote, one reached a file and no write failed
C30_Witness ==
    /\ cfg.csv /\ ~csv.open
    /\ Len(hist.csvCalls) = 2
    /\ Len(AllDataRows(csv.files)) = 1
    /\ "csv" \notin hist.failed

\* ======================================================== LogWorker: C29
\* C29: whatever start() and stop() calls the controlling thread makes, at
\* most one consumer thread is alive; a start() that finds the consumer
\* alive creates no thread, a start() that finds none alive (never started,
\* or exited) creates exactly one, which is alive afterwards.
C29_OneConsumerThread ==
    /\ [](calc.live <= 1 /\ calc.created <= calc.starts)
    /\ [][calc'.starts # calc.starts =>
             IF thread = "alive"
             THEN calc'.created = calc.created /\ calc'.live = calc.live
             ELSE /\ calc'.created = calc.created + 1
                  /\ calc'.live = 1 /\ thread' = "alive"]_vars

\* three start() calls: one found the consumer alive, one came after the
\* consumer had drained and exited
C29_Witness ==
    /\ calc.starts = 3 /\ calc.created = 2 /\ calc.live = 1
    /\ thread = "alive"
=============================================================================
